---- MODULE Spec2Model ----
(***************************************************************************)
(* A model of the encrypted in-memory filesystem of pandorasbox/vfs: the   *)
(* inode store (inode/inode.go), the filesystem root pbFS (vfs/vfs.go) and *)
(* the file handle `file` with its sealed slot (vfs/vfsfile.go).           *)
(*                                                                         *)
(* Go strings are sequences of one-character strings, Go slices are        *)
(* sequences (index i of the code is index i+1 here), pointers to inodes   *)
(* are inode numbers, pointers to sealed slots and to handles are indices  *)
(* into the heaps `sealed` and `files`; 0 is the nil pointer.              *)
(***************************************************************************)
EXTENDS Integers, Sequences, FiniteSets, TLC

(***************************************************************************)
(* Bounds of the model.                                                    *)
(***************************************************************************)
MaxHandles == 2
MaxSize == 2
MaxBuf == 2
MaxNeg == 1
NumKeys == 1
MaxIno == 3
NumThreads == 2
ThreadOps == 1
MaxLinks == 4
MaxCwd == 4
MaxKeys == 3
LockOps == 2

Bytes == {1, 2}
Keys == 1..NumKeys

(***************************************************************************)
(* Program constants.                                                      *)
(***************************************************************************)
O_ACCESS == 3
O_RDONLY == 0
O_WRONLY == 1
O_RDWR == 2
O_CREATE == 64
O_EXCL == 128
O_TRUNC == 512
O_APPEND == 1024
Overhead == 40
SeekStart == 0
SeekCurrent == 1
SeekEnd == 2

HasFlag(flag, bit) == (flag \div bit) % 2 = 1
Access(flag) == flag % (O_ACCESS + 1)

\* the element of a one-element set
The(S) == CHOOSE x \in S : TRUE

Min(a, b) == IF a < b THEN a ELSE b
Max(a, b) == IF a > b THEN a ELSE b
Zeros(n) == [i \in 1..n |-> 0]

(***************************************************************************)
(* Strings.                                                                *)
(***************************************************************************)
CharCode(c) ==
  CASE c = "-" -> 45
    [] c = "." -> 46
    [] c = "/" -> 47
    [] c = "f" -> 102
    [] c = "g" -> 103
    [] c = "x" -> 120

RECURSIVE StrLess(_, _)
StrLess(a, b) ==
  IF b = <<>> THEN FALSE
  ELSE IF a = <<>> THEN TRUE
  ELSE IF CharCode(Head(a)) # CharCode(Head(b))
       THEN CharCode(Head(a)) < CharCode(Head(b))
  ELSE StrLess(Tail(a), Tail(b))

\* strings.Index(s, "/"): the 0-based index of the first slash, -1 if none
RECURSIVE IndexFrom(_, _, _)
IndexFrom(s, c, i) ==
  IF i > Len(s) THEN -1
  ELSE IF s[i] = c THEN i - 1
  ELSE IndexFrom(s, c, i + 1)
Index(s, c) == IndexFrom(s, c, 1)

\* strings.LastIndex(s, "/")
RECURSIVE LastIndexFrom(_, _, _)
LastIndexFrom(s, c, i) ==
  IF i < 1 THEN -1
  ELSE IF s[i] = c THEN i - 1
  ELSE LastIndexFrom(s, c, i - 1)
LastIndex(s, c) == LastIndexFrom(s, c, Len(s))

RECURSIVE TrimLeft(_, _)
TrimLeft(s, c) ==
  IF s # <<>> /\ Head(s) = c THEN TrimLeft(Tail(s), c) ELSE s

IsAbs(p) == Len(p) > 0 /\ p[1] = "/"

\* the elements of a path between slashes, empty ones included
RECURSIVE Elems(_)
Elems(p) ==
  LET x == Index(p, "/") IN
  IF x = -1 THEN <<p>>
  ELSE <<SubSeq(p, 1, x)>> \o Elems(SubSeq(p, x + 2, Len(p)))

\* a slip: every name is taken to be valid
ValidPath_Any(name) == TRUE

\* io/fs.ValidPath
ValidPath(name) ==
  \/ name = <<".">>
  \/ \A i \in 1..Len(Elems(name)) :
        Elems(name)[i] \notin {<<>>, <<".">>, <<".", ".">>}

\* path.Split
Split(p) ==
  LET i == LastIndex(p, "/") IN
  <<SubSeq(p, 1, i + 1), SubSeq(p, i + 2, Len(p))>>

\* path.Clean: the elements kept after dropping "" and "." and applying ".."
RECURSIVE CleanElems(_, _, _)
CleanElems(es, out, rooted) ==
  IF es = <<>> THEN out
  ELSE LET e == Head(es) IN
       IF e = <<>> \/ e = <<".">> THEN CleanElems(Tail(es), out, rooted)
       ELSE IF e = <<".", ".">> THEN
            IF out # <<>> /\ out[Len(out)] # <<".", ".">>
            THEN CleanElems(Tail(es), SubSeq(out, 1, Len(out) - 1), rooted)
            ELSE IF rooted THEN CleanElems(Tail(es), out, rooted)
            ELSE CleanElems(Tail(es), Append(out, e), rooted)
       ELSE CleanElems(Tail(es), Append(out, e), rooted)

RECURSIVE JoinElems(_)
JoinElems(es) ==
  IF es = <<>> THEN <<>>
  ELSE IF Len(es) = 1 THEN es[1]
  ELSE es[1] \o <<"/">> \o JoinElems(Tail(es))

Clean(p) ==
  IF p = <<>> THEN <<".">>
  ELSE LET rooted == IsAbs(p)
           kept == JoinElems(CleanElems(Elems(p), <<>>, rooted)) IN
       IF rooted THEN <<"/">> \o kept
       ELSE IF kept = <<>> THEN <<".">> ELSE kept

\* path.Join of two elements
Join(a, b) ==
  IF a = <<>> /\ b = <<>> THEN <<>>
  ELSE IF a = <<>> THEN Clean(b)
  ELSE IF b = <<>> THEN Clean(a)
  ELSE Clean(a \o <<"/">> \o b)

\* inode.Abs
Abs(cwd, name) == IF IsAbs(name) THEN name ELSE Join(cwd, name)

\* inode.PopPath
PopPath(path) ==
  IF path = <<>> THEN << <<>>, <<>> >>
  ELSE IF path = <<"/">> THEN << <<"/">>, <<>> >>
  ELSE LET x == Index(path, "/") IN
       IF x = -1 THEN <<path, <<>> >>
       ELSE IF x = 0 THEN << <<"/">>, TrimLeft(path, "/") >>
       ELSE <<SubSeq(path, 1, x), SubSeq(path, x + 2, Len(path))>>

(***************************************************************************)
(* The inode store (inode/inode.go).  `node` maps an inode number to its   *)
(* record; an *Inode of the code is the inode number.                      *)
(***************************************************************************)
IsDir(n) == n.Mode = "ModeDir"

\* sort.Search over n.Dir with the predicate n.Dir[i].Name >= name
RECURSIVE Search(_, _, _, _)
Search(i, j, Dir, name) ==
  IF i < j
  THEN LET h == (i + j) \div 2 IN
       IF StrLess(Dir[h + 1].Name, name)
       THEN Search(h + 1, j, Dir, name)
       ELSE Search(i, h, Dir, name)
  ELSE i

find(Dir, name) == Search(0, Len(Dir), Dir, name)

countUp(node, c) == [node EXCEPT ![c].Nlink = @ + 1]

\* countDown panics on a zero link count; the caller tests CanCountDown
CanCountDown(node, c) == node[c].Nlink # 0
countDown(node, c) == [node EXCEPT ![c].Nlink = @ - 1]

\* n.Dir[i] is replaced by entry (i is the index of the code)
linkSwapi(node, n, i, entry) ==
  LET old == node[n].Dir[i + 1].Inode IN
  IF ~CanCountDown(node, old) THEN [node |-> node, err |-> "panic"]
  ELSE LET n1 == countDown(node, old)
           n2 == [n1 EXCEPT ![n].Dir[i + 1] = entry] IN
       [node |-> countUp(n2, entry.Inode), err |-> "nil"]

\* a slip: the entry is added at the end of n.Dir
linki_Append(node, n, i, entry) ==
  [node |-> countUp([node EXCEPT ![n].Dir = Append(@, entry)], entry.Inode), err |-> "nil"]

\* entry is inserted before index i
linki(node, n, i, entry) ==
  LET d == node[n].Dir
      n1 == [node EXCEPT ![n].Dir =
               SubSeq(d, 1, i) \o <<entry>> \o SubSeq(d, i + 1, Len(d))] IN
  [node |-> countUp(n1, entry.Inode), err |-> "nil"]

Link(node, n, name, child) ==
  IF ~IsDir(node[n]) THEN [node |-> node, err |-> "not a directory"]
  ELSE LET x == find(node[n].Dir, name)
           entry == [Name |-> name, Inode |-> child] IN
       IF x < Len(node[n].Dir) /\ node[n].Dir[x + 1].Name = name
       THEN linkSwapi(node, n, x, entry)
       ELSE linki(node, n, x, entry)

\* a slip: the link count is lowered and the entry stays in n.Dir
unlinki_KeepEntry(node, n, i) ==
  LET old == node[n].Dir[i + 1].Inode IN
  IF ~CanCountDown(node, old) THEN [node |-> node, err |-> "panic"]
  ELSE [node |-> countDown(node, old), err |-> "nil"]

unlinki(node, n, i) ==
  LET old == node[n].Dir[i + 1].Inode
      d == node[n].Dir IN
  IF ~CanCountDown(node, old) THEN [node |-> node, err |-> "panic"]
  ELSE LET n1 == countDown(node, old) IN
       [node |-> [n1 EXCEPT ![n].Dir = SubSeq(d, 1, i) \o SubSeq(d, i + 2, Len(d))],
        err |-> "nil"]

Unlink(node, n, name) ==
  IF ~IsDir(node[n]) THEN [node |-> node, err |-> "not a directory"]
  ELSE LET x == find(node[n].Dir, name) IN
       IF x = Len(node[n].Dir) \/ node[n].Dir[x + 1].Name # name
       THEN [node |-> node, err |-> "ErrNotExist"]
       ELSE unlinki(node, n, x)

\* Inode.UnlinkAll: every entry but ".." is counted down, the entries of the
\* directories below first, and n.Dir is emptied.  depth counts the calls of
\* UnlinkAll on the stack: more of them than there are inodes means that the
\* entries form a cycle, where the recursion ends the program, by the panic
\* of countDown or by exhausting the stack.
RECURSIVE UnlinkFrom(_, _, _)
RECURSIVE UnlinkEntries(_, _, _, _)
UnlinkEntries(node, n, es, depth) ==
  IF es = <<>> THEN [node |-> node, err |-> "nil"]
  ELSE IF Head(es).Name = <<".", ".">> THEN UnlinkEntries(node, n, Tail(es), depth)
  ELSE IF Head(es).Inode = n
  THEN IF ~CanCountDown(node, n) THEN [node |-> node, err |-> "panic"]
       ELSE UnlinkEntries(countDown(node, n), n, Tail(es), depth)
  ELSE The({ IF r.err # "nil" THEN r
             ELSE IF ~CanCountDown(r.node, Head(es).Inode)
             THEN [node |-> node, err |-> "panic"]
             ELSE UnlinkEntries(countDown(r.node, Head(es).Inode), n, Tail(es), depth)
             : r \in { UnlinkFrom(node, Head(es).Inode, depth + 1) } })

UnlinkFrom(node, n, depth) ==
  IF depth > Len(node) THEN [node |-> node, err |-> "panic"]
  ELSE The({ IF r.err # "nil" THEN r
             ELSE [node |-> [r.node EXCEPT ![n].Dir = <<>>], err |-> "nil"]
             : r \in { UnlinkEntries(node, n, node[n].Dir, depth) } })

UnlinkAll(node, n) == UnlinkFrom(node, n, 0)

\* the inode number path resolves to from n, 0 for ErrNotExist
RECURSIVE Resolve(_, _, _)
Resolve(node, n, path) ==
  LET name == PopPath(path)[1]
      trim == PopPath(path)[2] IN
  IF name = <<"/">>
  THEN IF trim = <<>> THEN n ELSE Resolve(node, n, trim)
  ELSE LET x == find(node[n].Dir, name) IN
       IF x < Len(node[n].Dir) /\ node[n].Dir[x + 1].Name = name
       THEN LET nn == node[n].Dir[x + 1].Inode IN
            IF Len(trim) = 0 THEN nn ELSE Resolve(node, nn, trim)
       ELSE 0

\* Inode.Rename, on the inode n
\* a slip: an existing directory at newpath is overwritten like a file
Rename_OverDir(node, n, oldpath, newpath) ==
  LET name == Split(oldpath)[2]
      dir == Clean(Split(oldpath)[1])
      snode == Resolve(node, n, oldpath)
      p == Resolve(node, n, dir)
      rename == Split(newpath)[2]
      tnode == Resolve(node, n, Clean(Split(newpath)[1])) IN
  IF snode = 0 \/ p = 0 THEN [node |-> node, err |-> "ErrNotExist"]
  ELSE IF tnode = 0 THEN [node |-> node, err |-> "ErrNotExist"]
  ELSE The({ IF l.err # "nil" THEN [node |-> node, err |-> l.err]
             ELSE Unlink(l.node, p, name)
             : l \in { Link(node, tnode, IF Len(rename) > 0 THEN rename ELSE name, snode) } })

Rename(node, n, oldpath, newpath) ==
  LET name == Split(oldpath)[2]
      dir == Clean(Split(oldpath)[1])
      snode == Resolve(node, n, oldpath)
      p == Resolve(node, n, dir)
      target == Resolve(node, n, newpath)
      rename == Split(newpath)[2]
      tnode == Resolve(node, n, Clean(Split(newpath)[1])) IN
  IF snode = 0 \/ p = 0 THEN [node |-> node, err |-> "ErrNotExist"]
  ELSE IF target # 0 /\ IsDir(node[target]) THEN [node |-> node, err |-> "ErrExist"]
  ELSE IF tnode = 0 THEN [node |-> node, err |-> "ErrNotExist"]
  ELSE The({ IF l.err # "nil" THEN [node |-> node, err |-> l.err]
             ELSE Unlink(l.node, p, name)
             : l \in { Link(node, tnode, IF Len(rename) > 0 THEN rename ELSE name,
                            snode) } })

\* Ino.New: the record of the inode the incremented counter names
New(mode) == [Mode |-> mode, Nlink |-> 0, Size |-> 0, Dir |-> <<>>]

\* Ino.NewDir: a directory inode number d linked to itself as "." and ".."
NewDir(node, d) ==
  LET n0 == node @@ (d :> [New("regular") EXCEPT !.Mode = "ModeDir"])
      n1 == Link(n0, d, <<".">>, d).node IN
  Link(n1, d, <<".", ".">>, d).node

(***************************************************************************)
(* The AEAD of memguard/core, used as a black box: a ciphertext is its     *)
(* header, which binds the key, and its body; the nil slice has header 0.  *)
(***************************************************************************)
NilCipher == [hdr |-> 0, body |-> <<>>]

CipherLen(ct) == IF ct.hdr = 0 THEN 0 ELSE Overhead + Len(ct.body)

Encrypt(plaintext, key) ==
  [hdr |-> key, body |-> [i \in 1..Len(plaintext) |-> (plaintext[i] + key) % 256]]

\* core.Decrypt(ciphertext, key, output): err and the output buffer of outLen bytes
Decrypt(ct, key, outLen) ==
  IF ct.hdr = 0 \/ ct.hdr # key
  THEN [err |-> "DecryptFailed", plaintext |-> Zeros(outLen)]
  ELSE IF outLen < Len(ct.body)
  THEN [err |-> "ErrBufferTooSmall", plaintext |-> Zeros(outLen)]
  ELSE [err |-> "nil",
        plaintext |-> [i \in 1..outLen |->
                         IF i <= Len(ct.body) THEN (ct.body[i] - key + 256) % 256 ELSE 0]]

\* core.Copy(dst, src): the first min(len) bytes of dst are replaced
Copy(dst, src) ==
  [i \in 1..Len(dst) |-> IF i <= Len(src) THEN src[i] ELSE dst[i]]

\* a slip: core.Copy(dst, src), the offset forgotten
CopyAt_Front(dst, offset, src) ==
  [i \in 1..Len(dst) |-> IF i <= Len(src) THEN src[i] ELSE dst[i]]

\* core.Copy(dst[offset:], src)
CopyAt(dst, offset, src) ==
  [i \in 1..Len(dst) |->
     IF i > offset /\ i - offset <= Len(src) THEN src[i - offset] ELSE dst[i]]

(***************************************************************************)
(* The filesystem pbFS and its handles.  A state st is the record of the   *)
(* program's variables; an operation yields the state after it together    *)
(* with what it returns: n, err ("nil" for no error, "panic" for a Go      *)
(* run-time panic, which leaves st as it was) and the bytes or entries     *)
(* out.                                                                    *)
(***************************************************************************)
Ret(st, n, err, out) == [st |-> st, n |-> n, err |-> err, out |-> out]

\* &file{fs: fs, name: name, flags: flag, node: node, data: data}
NewFile(name, flag, n, d) ==
  [name |-> name, flags |-> flag, node |-> n, data |-> d, offset |-> 0, diroffset |-> 0]

\* new(sealedFile)
NewSealedFile == [f |-> 0, ciphertext |-> NilCipher, key |-> 0]

\* the tail of OpenFile: the handle on node nd, after truncation or creation
OpenNode(st, name, flag, nd) ==
  LET h == Len(st.files) + 1
      truncate == HasFlag(flag, O_TRUNC)
      appendFile == HasFlag(flag, O_APPEND) IN
  IF nd + 1 > Len(st.data) THEN Ret(st, 0, "panic", <<>>)
  ELSE LET d == st.data[nd + 1]
           size == IF d # 0 /\ truncate THEN 0 ELSE st.node[nd].Size
           file == [NewFile(name, flag, nd, d) EXCEPT
                      !.offset = IF d # 0 /\ appendFile THEN size ELSE 0] IN
       Ret([st EXCEPT !.files = Append(@, file),
                      !.node = [@ EXCEPT ![nd].Size = size],
                      !.sealed = IF d # 0 THEN [@ EXCEPT ![d].f = h] ELSE @],
           h, "nil", <<>>)

OpenFile(st, name, flag) ==
  LET h == Len(st.files) + 1
      access == Access(flag)
      create == HasFlag(flag, O_CREATE)
      truncate == HasFlag(flag, O_TRUNC) IN
  IF name = <<"/">>
  THEN Ret([st EXCEPT !.files =
              Append(@, NewFile(name, flag, st.root, st.data[st.root + 1]))],
           h, "nil", <<>>)
  ELSE IF ~(IF Len(name) > 1 /\ name[1] = "/" THEN ValidPath(Tail(name))
            ELSE ValidPath(name))
  THEN Ret(st, 0, "ErrInvalid", <<>>)
  ELSE IF name = <<".">>
  THEN LET d == st.data[st.dir + 1]
           file == [NewFile(name, flag, st.dir, d) EXCEPT
                      !.offset = IF d # 0 /\ HasFlag(flag, O_APPEND)
                                 THEN st.node[st.dir].Size ELSE 0] IN
       Ret([st EXCEPT !.files = Append(@, file),
                      !.sealed = IF d # 0 THEN [@ EXCEPT ![d].f = h] ELSE @],
           h, "nil", <<>>)
  ELSE LET wd == IF IsAbs(name) THEN st.root ELSE st.dir
           nd == Resolve(st.node, wd, name)
           exists == nd # 0
           filename == Split(name)[2]
           parent == Resolve(st.node, wd, Clean(Split(name)[1])) IN
       IF parent = 0 THEN Ret(st, 0, "ErrNotExist", <<>>)
       ELSE IF ~exists /\ ~create THEN Ret(st, 0, "ENOENT", <<>>)
       ELSE IF exists
       THEN IF create /\ HasFlag(flag, O_EXCL) THEN Ret(st, 0, "ErrExist", <<>>)
            ELSE IF IsDir(st.node[nd]) /\ (access # O_RDONLY \/ truncate)
            THEN Ret(st, 0, "EISDIR", <<>>)
            ELSE IF truncate
            THEN LET sfile == st.data[nd + 1] IN
                 IF sfile = 0 THEN Ret(st, 0, "panic", <<>>)
                 ELSE OpenNode([st EXCEPT !.sealed[sfile].ciphertext = NilCipher,
                                          !.sealed[sfile].key = 0],
                               name, flag, nd)
            ELSE OpenNode(st, name, flag, nd)
       ELSE \* fs.ino.New(perm), parent.Link, and fs.ino.SubIno if that fails
            LET new == st.ino + 1
                linked == Link(st.node @@ (new :> New("regular")), parent, filename, new) IN
            IF linked.err # "nil" THEN Ret(st, 0, linked.err, <<>>)
            ELSE OpenNode([st EXCEPT !.ino = new,
                                     !.node = linked.node,
                                     !.sealed = Append(@, NewSealedFile),
                                     !.data = Append(@, Len(st.sealed) + 1)],
                          name, flag, new)

\* pbFS.Create
Create(st, name) == OpenFile(st, name, O_CREATE + O_RDWR + O_TRUNC)

\* pbFS.Open
Open(st, name) == OpenFile(st, name, O_RDONLY)

\* a slip: the size taken to be the ciphertext's length, overhead included
updateSize_KeepOverhead(ct) == CipherLen(ct)

\* file.updateSize: the size the inode gets for ciphertext ct
updateSize(ct) == IF CipherLen(ct) = 0 THEN 0 ELSE CipherLen(ct) - Overhead

\* file.read: p is a buffer of L bytes; out is what the call copies into it
read(st, h, L, offset) ==
  LET f == st.files[h] IN
  IF f.node = 0 THEN Ret(st, 0, "ErrClosed", <<>>)
  ELSE IF L = 0 THEN Ret(st, 0, "nil", <<>>)
  ELSE IF Access(f.flags) = O_WRONLY THEN Ret(st, 0, "ErrPermission", <<>>)
  ELSE IF IsDir(st.node[f.node]) THEN Ret(st, 0, "EISDIR", <<>>)
  ELSE LET Size == st.node[f.node].Size IN
       IF offset >= Size THEN Ret(st, 0, "EOF", <<>>)
       ELSE IF Size = 0 THEN Ret(st, 0, "EOF", <<>>)
       ELSE IF f.data = 0 THEN Ret(st, 0, "panic", <<>>)
       ELSE IF st.sealed[f.data].key = 0 THEN Ret(st, 0, "panic", <<>>)
       ELSE LET dec == Decrypt(st.sealed[f.data].ciphertext, st.sealed[f.data].key, Size) IN
            IF dec.err # "nil" THEN Ret(st, 0, dec.err, <<>>)
            ELSE IF offset < 0 THEN Ret(st, 0, "panic", <<>>)
            ELSE LET rest == Len(dec.plaintext) - offset
                     n == IF L < rest THEN L ELSE rest IN
                 Ret(st, n, IF L > n THEN "EOF" ELSE "nil",
                     SubSeq(dec.plaintext, offset + 1, offset + n))

\* a slip: the offset moves on by the buffer's length, not by the bytes read
Read_AdvanceByLen(st, h, L) ==
  LET r == read(st, h, L, st.files[h].offset) IN
  Ret([r.st EXCEPT !.files[h].offset = @ + L], r.n, r.err, r.out)

\* file.Read
Read(st, h, L) ==
  LET r == read(st, h, L, st.files[h].offset) IN
  Ret([r.st EXCEPT !.files[h].offset = @ + r.n], r.n, r.err, r.out)

\* file.ReadAt
ReadAt(st, h, L, off) ==
  LET f == st.files[h] IN
  IF f.node = 0 THEN Ret(st, 0, "ErrClosed", <<>>)
  ELSE IF off < 0 THEN Ret(st, 0, "negative offset", <<>>)
  ELSE IF Access(f.flags) = O_WRONLY THEN Ret(st, 0, "ErrPermission", <<>>)
  ELSE IF IsDir(st.node[f.node]) THEN Ret(st, 0, "EISDIR", <<>>)
  ELSE read(st, h, L, off)

\* file.write: newKey is the key fastrand draws
write(st, h, p, offset, newKey) ==
  LET f == st.files[h] IN
  IF f.node = 0 THEN Ret(st, 0, "ErrClosed", <<>>)
  ELSE IF Access(f.flags) = O_RDONLY THEN Ret(st, 0, "ErrPermission", <<>>)
  ELSE IF IsDir(st.node[f.node]) THEN Ret(st, 0, "EISDIR", <<>>)
  ELSE LET Size == st.node[f.node].Size IN
       IF f.data = 0 THEN Ret(st, 0, "panic", <<>>)
       ELSE IF Size # 0 /\ st.sealed[f.data].key = 0 THEN Ret(st, 0, "panic", <<>>)
       ELSE LET dec == IF Size # 0
                       THEN Decrypt(st.sealed[f.data].ciphertext, st.sealed[f.data].key, Size)
                       ELSE [err |-> "nil", plaintext |-> Zeros(Size)]
                size == Len(p) + offset IN
            IF dec.err # "nil" THEN Ret(st, 0, dec.err, <<>>)
            ELSE IF offset < 0 THEN Ret(st, 0, "panic", <<>>)
            ELSE LET data == CopyAt(IF size > Size THEN Copy(Zeros(size), dec.plaintext)
                                    ELSE dec.plaintext,
                                    offset, p)
                     ct == Encrypt(data, newKey)
                     rest == Len(data) - offset
                     n == IF Len(p) < rest THEN Len(p) ELSE rest IN
                 Ret([st EXCEPT !.sealed[f.data].ciphertext = ct,
                                !.sealed[f.data].key = newKey,
                                !.node[f.node].Size = updateSize(ct)],
                     n, "nil", <<>>)

\* a slip: the write starts at the beginning of the file, not at the handle's offset
Write_FromStart(st, h, p, newKey) ==
  LET r == write(st, h, p, 0, newKey) IN
  Ret([r.st EXCEPT !.files[h].offset = @ + r.n], r.n, r.err, r.out)

\* file.Write
Write(st, h, p, newKey) ==
  LET r == write(st, h, p, st.files[h].offset, newKey) IN
  Ret([r.st EXCEPT !.files[h].offset = @ + r.n], r.n, r.err, r.out)

\* a slip: the positional write moves the handle's offset as Write does
WriteAt_MovesOffset(st, h, b, off, newKey) ==
  LET f == st.files[h] IN
  IF f.node = 0 THEN Ret(st, 0, "ErrClosed", <<>>)
  ELSE IF off < 0 THEN Ret(st, 0, "negative offset", <<>>)
  ELSE IF Access(f.flags) = O_RDONLY THEN Ret(st, 0, "ErrPermission", <<>>)
  ELSE IF IsDir(st.node[f.node]) THEN Ret(st, 0, "EISDIR", <<>>)
  ELSE LET r == write(st, h, b, off, newKey) IN
       Ret([r.st EXCEPT !.files[h].offset = off + r.n], r.n, r.err, r.out)

\* file.WriteAt
WriteAt(st, h, b, off, newKey) ==
  LET f == st.files[h] IN
  IF f.node = 0 THEN Ret(st, 0, "ErrClosed", <<>>)
  ELSE IF off < 0 THEN Ret(st, 0, "negative offset", <<>>)
  ELSE IF Access(f.flags) = O_RDONLY THEN Ret(st, 0, "ErrPermission", <<>>)
  ELSE IF IsDir(st.node[f.node]) THEN Ret(st, 0, "EISDIR", <<>>)
  ELSE write(st, h, b, off, newKey)

\* file.Stat: out holds the size the FileInfo reports
Stat(st, h) ==
  IF st.files[h].node = 0 THEN Ret(st, 0, "ErrClosed", <<>>)
  ELSE Ret(st, 0, "nil", <<st.node[st.files[h].node].Size>>)

\* file.Seek
Seek(st, h, offset, whence) ==
  LET f == st.files[h] IN
  IF f.node = 0 THEN Ret(st, 0, "ErrClosed", <<>>)
  ELSE IF IsDir(st.node[f.node]) THEN Ret(st, 0, "EISDIR", <<>>)
  ELSE LET Size == st.node[f.node].Size IN
       CASE whence = SeekStart ->
              IF offset < 0 THEN Ret(st, 0, "ErrInvalid", <<>>)
              ELSE Ret([st EXCEPT !.files[h].offset = offset], offset, "nil", <<>>)
         [] whence = SeekCurrent ->
              IF offset < 0 /\ Size + offset < 0 THEN Ret(st, 0, "ErrInvalid", <<>>)
              ELSE Ret([st EXCEPT !.files[h].offset = @ + offset],
                       f.offset + offset, "nil", <<>>)
         [] whence = SeekEnd ->
              Ret([st EXCEPT !.files[h].offset = Size + offset], Size + offset, "nil", <<>>)
         [] OTHER -> Ret(st, 0, "nil", <<>>)

\* file.Sync
Sync(st, h) ==
  LET f == st.files[h] IN
  IF f.node = 0 THEN Ret(st, 0, "ErrClosed", <<>>)
  ELSE IF Access(f.flags) = O_RDONLY THEN Ret(st, 0, "nil", <<>>)
  ELSE IF f.node + 1 > Len(st.data) THEN Ret(st, 0, "panic", <<>>)
  ELSE Ret([st EXCEPT !.data[f.node + 1] = f.data], 0, "nil", <<>>)

\* a slip: the handle's node is not set to nil
Close_KeepNode(st, h) == Sync(st, h)

\* file.Close
Close(st, h) ==
  LET r == Sync(st, h) IN
  IF r.err # "nil" THEN r
  ELSE Ret([r.st EXCEPT !.files[h].node = 0], 0, "nil", <<>>)

\* a slip: the inode's size is not updated after the re-encryption
Reseal_KeepSize(st, d, nd, data, newKey) ==
  [st EXCEPT !.sealed[d].ciphertext = Encrypt(data, newKey),
             !.sealed[d].key = newKey]

\* a slip: the data is encrypted again under the key the slot already holds
Reseal_OldKey(st, d, nd, data, newKey) ==
  LET key == IF st.sealed[d].key = 0 THEN newKey ELSE st.sealed[d].key
      ct == Encrypt(data, key) IN
  [st EXCEPT !.sealed[d].ciphertext = ct,
             !.sealed[d].key = key,
             !.node[nd].Size = updateSize(ct)]

\* the re-encryption shared by the two branches of Truncate: the slot d and
\* the inode nd after plaintext data is stored under newKey
Reseal(st, d, nd, data, newKey) ==
  LET ct == Encrypt(data, newKey) IN
  [st EXCEPT !.sealed[d].ciphertext = ct,
             !.sealed[d].key = newKey,
             !.node[nd].Size = updateSize(ct)]

\* the body both truncations run on slot d and inode nd
TruncateSlot(st, d, nd, size, newKey) ==
  LET Size == st.node[nd].Size IN
  IF Size # 0 /\ st.sealed[d].key = 0 THEN Ret(st, 0, "panic", <<>>)
  ELSE LET dec == IF Size # 0
                  THEN Decrypt(st.sealed[d].ciphertext, st.sealed[d].key, Size)
                  ELSE [err |-> "nil", plaintext |-> <<>>] IN
       IF dec.err # "nil" THEN Ret(st, 0, dec.err, <<>>)
       ELSE IF Size = 0 /\ size = 0 THEN Ret(st, 0, "nil", <<>>)
       ELSE IF size <= Size
       THEN IF size < 0 THEN Ret(st, 0, "panic", <<>>)
            ELSE Ret(Reseal(st, d, nd, SubSeq(dec.plaintext, 1, size), newKey),
                     0, "nil", <<>>)
       ELSE Ret(Reseal(st, d, nd, Copy(Zeros(size), dec.plaintext), newKey),
                0, "nil", <<>>)

\* a slip: the access mode is not looked at
Truncate_Unchecked(st, h, size, newKey) ==
  LET f == st.files[h] IN
  IF f.node = 0 THEN Ret(st, 0, "ErrClosed", <<>>)
  ELSE IF IsDir(st.node[f.node]) THEN Ret(st, 0, "EISDIR", <<>>)
  ELSE IF f.data = 0
  THEN Ret(st, 0, IF st.node[f.node].Size = 0 /\ size = 0 THEN "nil" ELSE "panic", <<>>)
  ELSE TruncateSlot(st, f.data, f.node, size, newKey)

\* file.Truncate
Truncate(st, h, size, newKey) ==
  LET f == st.files[h] IN
  IF f.node = 0 THEN Ret(st, 0, "ErrClosed", <<>>)
  ELSE IF Access(f.flags) = O_RDONLY THEN Ret(st, 0, "ErrPermission", <<>>)
  ELSE IF IsDir(st.node[f.node]) THEN Ret(st, 0, "EISDIR", <<>>)
  ELSE IF f.data = 0
  THEN Ret(st, 0, IF st.node[f.node].Size = 0 /\ size = 0 THEN "nil" ELSE "panic", <<>>)
  ELSE TruncateSlot(st, f.data, f.node, size, newKey)

\* pbFS.Truncate
FSTruncate(st, name, size, newKey) ==
  IF size < 0 THEN Ret(st, 0, "ErrClosed", <<>>)
  ELSE LET child == Resolve(st.node, st.root, Abs(st.cwd, name)) IN
       IF child = 0 THEN Ret(st, 0, "ErrNotExist", <<>>)
       ELSE IF child + 1 > Len(st.data) THEN Ret(st, 0, "panic", <<>>)
       ELSE LET file == st.data[child + 1] IN
            \* file.f.node.Size dereferences the slot, its handle and the handle's node
            IF file = 0 THEN Ret(st, 0, "panic", <<>>)
            ELSE IF st.sealed[file].f = 0 THEN Ret(st, 0, "panic", <<>>)
            ELSE IF st.files[st.sealed[file].f].node = 0 THEN Ret(st, 0, "panic", <<>>)
            ELSE TruncateSlot(st, file, st.files[st.sealed[file].f].node, size, newKey)

\* file.ReadDir: out holds the names returned, "nil" for an entry left unset
ReadDir(st, h, n) ==
  LET f == st.files[h] IN
  IF f.node = 0 THEN Ret(st, 0, "ErrClosed", <<>>)
  ELSE IF Access(f.flags) = O_WRONLY THEN Ret(st, 0, "ErrPermission", <<>>)
  ELSE IF ~IsDir(st.node[f.node]) THEN Ret(st, 0, "ENOTDIR", <<>>)
  ELSE LET dirs == st.node[f.node].Dir IN
       IF f.diroffset >= Len(dirs)
       THEN Ret(st, 0, IF n <= 0 THEN "nil" ELSE "EOF", <<>>)
       ELSE IF n <= 0 /\ Len(dirs) = 2 THEN Ret(st, 0, "nil", <<>>)
       ELSE LET n1 == IF n <= 0 THEN Len(dirs) ELSE n
                off == IF f.diroffset = 0 THEN 2 ELSE f.diroffset
                infosLen == IF n1 - off <= 0 THEN n1 ELSE n1 - off
                count == Min(Len(dirs) - off, n1) IN
            IF off > Len(dirs) \/ count > infosLen THEN Ret(st, 0, "panic", <<>>)
            ELSE Ret([st EXCEPT !.files[h].diroffset = off + n1],
                     infosLen, "nil",
                     [i \in 1..infosLen |->
                        IF i <= count THEN dirs[off + i].Name ELSE <<"nil">>])

\* pbFS.ReadFile: out is the buffer returned.  Each call's result is named once,
\* as the element of a one-element set.
ReadFile(st, name) ==
  The({ IF o.err # "nil" THEN o
        ELSE The({ The({ IF r.err = "panic" THEN Ret(st, 0, "panic", <<>>)
                         ELSE The({ Ret(c.st, r.n,
                                        IF r.err = "nil" /\ r.n < fi.out[1]
                                        THEN "ErrShortWrite"
                                        ELSE IF r.err = "nil" THEN c.err ELSE r.err,
                                        Copy(Zeros(fi.out[1]), r.out))
                                    : c \in { Close(r.st, o.n) } })
                         : r \in { Read(o.st, o.n, fi.out[1]) } })
                   : fi \in { Stat(o.st, o.n) } })
        : o \in { Open(st, name) } })

\* the directory a name is resolved from, and the name made absolute
WdOf(st, name) == IF IsAbs(name) THEN st.root ELSE st.dir
AbsOf(st, name) == IF IsAbs(name) THEN name ELSE Join(st.cwd, name)

\* the parent Mkdir, Remove and RemoveAll look up for the absolute path abs, or 0
ParentOf(st, abs) ==
  LET d == Clean(Split(abs)[1]) IN
  IF d = <<"/">> THEN st.root ELSE Resolve(st.node, st.root, TrimLeft(d, "/"))

\* pbFS.Mkdir
Mkdir(st, name) ==
  LET abs == AbsOf(st, name)
      parent == ParentOf(st, abs)
      filename == Split(abs)[2]
      child == st.ino + 1 IN
  IF Resolve(st.node, WdOf(st, name), name) # 0 THEN Ret(st, 0, "ErrExist", <<>>)
  ELSE IF parent = 0 THEN Ret(st, 0, "ErrNotExist", <<>>)
  ELSE The({ IF l.err = "panic" THEN Ret(st, 0, "panic", <<>>)
             ELSE The({ IF l2.err = "panic" THEN Ret(st, 0, "panic", <<>>)
                        ELSE Ret([st EXCEPT !.ino = child,
                                            !.node = l2.node,
                                            !.sealed = Append(@, NewSealedFile),
                                            !.data = Append(@, Len(st.sealed) + 1)],
                                 0, "nil", <<>>)
                        : l2 \in { Link(l.node, child, <<".", ".">>, parent) } })
             : l \in { Link(NewDir(st.node, child), parent, filename, child) } })

\* a slip: the slot of a removed regular file is wiped at once
Remove_WipeSlot(st, name) ==
  LET abs == AbsOf(st, name)
      child == Resolve(st.node, WdOf(st, name), name)
      parent == ParentOf(st, abs) IN
  IF child = 0 THEN Ret(st, 0, "ErrNotExist", <<>>)
  ELSE IF IsDir(st.node[child]) /\ Len(st.node[child].Dir) > 2
  THEN Ret(st, 0, "directory not empty", <<>>)
  ELSE IF parent = 0 THEN Ret(st, 0, "ErrNotExist", <<>>)
  ELSE The({ IF u.err # "nil" THEN Ret(st, 0, u.err, <<>>)
             ELSE Ret([st EXCEPT !.node = u.node,
                                 !.sealed = IF ~IsDir(st.node[child]) /\ st.data[child + 1] # 0
                                            THEN [@ EXCEPT ![st.data[child + 1]].ciphertext = NilCipher,
                                                           ![st.data[child + 1]].key = 0]
                                            ELSE @],
                      0, "nil", <<>>)
             : u \in { Unlink(st.node, parent, Split(abs)[2]) } })

\* a slip: a directory is unlinked whatever it holds
Remove_AnyDir(st, name) ==
  LET abs == AbsOf(st, name)
      child == Resolve(st.node, WdOf(st, name), name)
      parent == ParentOf(st, abs) IN
  IF child = 0 \/ parent = 0 THEN Ret(st, 0, "ErrNotExist", <<>>)
  ELSE The({ IF u.err # "nil" THEN Ret(st, 0, u.err, <<>>)
             ELSE Ret([st EXCEPT !.node = u.node], 0, "nil", <<>>)
             : u \in { Unlink(st.node, parent, Split(abs)[2]) } })

\* pbFS.Remove
Remove(st, name) ==
  LET abs == AbsOf(st, name)
      child == Resolve(st.node, WdOf(st, name), name)
      parent == ParentOf(st, abs) IN
  IF child = 0 THEN Ret(st, 0, "ErrNotExist", <<>>)
  ELSE IF IsDir(st.node[child]) /\ Len(st.node[child].Dir) > 2
  THEN Ret(st, 0, "directory not empty", <<>>)
  ELSE IF parent = 0 THEN Ret(st, 0, "ErrNotExist", <<>>)
  ELSE The({ IF u.err # "nil" THEN Ret(st, 0, u.err, <<>>)
             ELSE Ret([st EXCEPT !.node = u.node], 0, "nil", <<>>)
             : u \in { Unlink(st.node, parent, Split(abs)[2]) } })

\* pbFS.RemoveAll
RemoveAll(st, name) ==
  LET abs == AbsOf(st, name)
      child == Resolve(st.node, WdOf(st, name), name)
      parent == ParentOf(st, abs) IN
  IF child = 0 THEN Ret(st, 0, "ErrNotExist", <<>>)
  ELSE IF parent = 0 THEN Ret(st, 0, "ErrNotExist", <<>>)
  ELSE The({ IF a.err = "panic" THEN Ret(st, 0, "panic", <<>>)
             ELSE The({ IF u.err = "panic" THEN Ret(st, 0, "panic", <<>>)
                        ELSE Ret([st EXCEPT !.node = u.node], 0, u.err, <<>>)
                        : u \in { Unlink(a.node, parent, Split(abs)[2]) } })
             : a \in { UnlinkAll(st.node, child) } })

\* pbFS.Rename
FSRename(st, oldpath, newpath) ==
  IF oldpath = <<"/">> THEN Ret(st, 0, "root may not be moved", <<>>)
  ELSE The({ IF r.err = "panic" THEN Ret(st, 0, "panic", <<>>)
             ELSE Ret([st EXCEPT !.node = r.node], 0, r.err, <<>>)
             : r \in { Rename(st.node, st.root, AbsOf(st, oldpath), AbsOf(st, newpath)) } })

\* pbFS.Stat and pbFS.fileStat: out holds the size the FileInfo reports
FSStat(st, name) ==
  IF name = <<"/">> THEN Ret(st, 0, "nil", <<st.node[st.root].Size>>)
  ELSE LET abs == Abs(st.cwd, name)
           child == Resolve(st.node, st.root,
                            IF abs # <<"/">> THEN TrimLeft(abs, "/") ELSE abs) IN
       IF child = 0 THEN Ret(st, 0, "ErrNotExist", <<>>)
       ELSE Ret(st, 0, "nil", <<st.node[child].Size>>)

\* the plaintext a sealed slot holds: what its ciphertext decrypts to under its key
Content(st, nd) ==
  LET d == st.data[nd + 1] IN
  IF d = 0 THEN <<>>
  ELSE IF st.sealed[d].ciphertext.hdr = 0 THEN <<>>
  ELSE Decrypt(st.sealed[d].ciphertext, st.sealed[d].key,
               Len(st.sealed[d].ciphertext.body)).plaintext

(***************************************************************************)
(* The state: the fields of pbFS (root, cwd, dir, ino, data), the inodes,  *)
(* the sealed slots and the handles allocated so far, and ret: the call    *)
(* that has just returned to the caller with its arguments and results,    *)
(* or "idle" once the caller has taken them.                               *)
(***************************************************************************)
VARIABLES root, cwd, dir, ino, node, data, sealed, files, ret, thread

vars == <<root, cwd, dir, ino, node, data, sealed, files, ret, thread>>

St == [root |-> root, cwd |-> cwd, dir |-> dir, ino |-> ino, node |-> node,
       data |-> data, sealed |-> sealed, files |-> files]

Idle == [op |-> "idle", h |-> 0, args |-> <<>>, n |-> 0, err |-> "nil", out |-> <<>>]

\* NewFS
Init ==
  /\ root = 1
  /\ cwd = <<"/">>
  /\ dir = 1
  /\ ino = 1
  /\ node = NewDir(<<>>, 1)
  /\ data = <<0, 0>>
  /\ sealed = <<>>
  /\ files = <<>>
  /\ ret = Idle
  /\ thread = <<>>

\* the inputs the calls are given
PathF == <<"/", "f">>
OpenCalls ==
  { <<PathF, O_RDONLY>>, <<PathF, O_WRONLY + O_CREATE>>,
    <<PathF, O_RDWR + O_CREATE + O_TRUNC>>, <<PathF, O_RDWR + O_APPEND>>,
    <<PathF \o <<"/", "x">>, O_RDWR + O_CREATE>>, << <<>>, O_RDONLY>> }
TruncatePaths == { PathF, <<"/">>, <<"/", "g">> }
RECURSIVE SeqsUpTo(_, _)
SeqsUpTo(S, n) ==
  IF n = 0 THEN { <<>> }
  ELSE SeqsUpTo(S, n - 1) \cup { Append(q, x) : q \in SeqsUpTo(S, n - 1), x \in S }
Buffers == SeqsUpTo(Bytes, MaxBuf)
BufLens == 0..(MaxSize + 1)
Offsets == (0 - MaxNeg)..MaxSize
Sizes == (0 - MaxNeg)..MaxSize
Whences == { SeekStart, SeekCurrent, SeekEnd }
Counts == { 0 - 1, 1 }
Handles == 1..Len(files)

\* the model stays within its bounds: file sizes and offsets
InBounds(st) ==
  /\ \A i \in DOMAIN st.node : st.node[i].Size <= MaxSize
  /\ \A h \in 1..Len(st.files) : st.files[h].offset \in Offsets
  /\ st.ino <= MaxIno

\* a call returns: the state it leaves and what the caller gets
Return(op, h, args, r) ==
  /\ ret = Idle
  /\ \E res \in { r } :
       /\ InBounds(res.st)
       /\ root' = res.st.root
       /\ cwd' = res.st.cwd
       /\ dir' = res.st.dir
       /\ ino' = res.st.ino
       /\ node' = res.st.node
       /\ data' = res.st.data
       /\ sealed' = res.st.sealed
       /\ files' = res.st.files
       /\ ret' = [op |-> op, h |-> h, args |-> args, n |-> res.n, err |-> res.err,
                  out |-> res.out]
       /\ thread' = thread

\* the caller takes the results and goes on; after a panic the program has ended
Resume ==
  /\ ret # Idle
  /\ ret.err # "panic"
  /\ ret' = Idle
  /\ UNCHANGED <<root, cwd, dir, ino, node, data, sealed, files, thread>>

CallOpenFile(name, flag) ==
  /\ Len(files) < MaxHandles
  /\ \E o \in { OpenFile(St, name, flag) } : Return("OpenFile", o.n, <<name, flag>>, o)

CallRead(h, L) == Return("Read", h, <<L>>, Read(St, h, L))

CallReadAt(h, L, off) == Return("ReadAt", h, <<L, off>>, ReadAt(St, h, L, off))

CallWrite(h, p, k) == Return("Write", h, <<p>>, Write(St, h, p, k))

CallWriteAt(h, b, off, k) == Return("WriteAt", h, <<b, off>>, WriteAt(St, h, b, off, k))

CallSeek(h, offset, whence) ==
  Return("Seek", h, <<offset, whence>>, Seek(St, h, offset, whence))

CallStat(h) == Return("Stat", h, <<>>, Stat(St, h))

CallSync(h) == Return("Sync", h, <<>>, Sync(St, h))

CallClose(h) == Return("Close", h, <<>>, Close(St, h))

CallTruncate(h, size, k) == Return("Truncate", h, <<size>>, Truncate(St, h, size, k))

CallFSTruncate(name, size, k) ==
  Return("FSTruncate", 0, <<name, size>>, FSTruncate(St, name, size, k))

CallReadDir(h, n) == Return("ReadDir", h, <<n>>, ReadDir(St, h, n))

CallReadFile(name) ==
  /\ Len(files) < MaxHandles
  /\ Return("ReadFile", 0, <<name>>, ReadFile(St, name))

Next ==
  \/ \E c \in OpenCalls : CallOpenFile(c[1], c[2])
  \/ \E h \in Handles, L \in BufLens : CallRead(h, L)
  \/ \E h \in Handles, L \in BufLens, off \in Offsets : CallReadAt(h, L, off)
  \/ \E h \in Handles, p \in Buffers, k \in Keys : CallWrite(h, p, k)
  \/ \E h \in Handles, b \in Buffers, off \in Offsets, k \in Keys : CallWriteAt(h, b, off, k)
  \/ \E h \in Handles, offset \in Offsets, whence \in Whences : CallSeek(h, offset, whence)
  \/ \E h \in Handles : CallStat(h)
  \/ \E h \in Handles : CallSync(h)
  \/ \E h \in Handles : CallClose(h)
  \/ \E h \in Handles, size \in Sizes, k \in Keys : CallTruncate(h, size, k)
  \/ \E name \in TruncatePaths, size \in Sizes, k \in Keys : CallFSTruncate(name, size, k)
  \/ \E h \in Handles, n \in Counts : CallReadDir(h, n)
  \/ \E name \in { PathF } : CallReadFile(name)
  \/ Resume

Spec == Init /\ [][Next]_vars

(***************************************************************************)
(* The same program under calls that build and change the directory tree:  *)
(* files and directories at three paths, made, removed and renamed, with   *)
(* handles that write one byte at a time.                                  *)
(***************************************************************************)
PathG == <<"/", "g">>
PathGX == <<"/", "g", "/", "x">>
TreePaths == { PathF, PathG, PathGX }
OneByte == { b \in Buffers : Len(b) = 1 }

CallMkdir(name) == Return("Mkdir", 0, <<name>>, Mkdir(St, name))

CallRemove(name) == Return("Remove", 0, <<name>>, Remove(St, name))

CallRemoveAll(name) == Return("RemoveAll", 0, <<name>>, RemoveAll(St, name))

CallRename(oldpath, newpath) ==
  Return("Rename", 0, <<oldpath, newpath>>, FSRename(St, oldpath, newpath))

TreeNext ==
  \/ \E name \in TreePaths : CallOpenFile(name, O_RDWR + O_CREATE)
  \/ \E h \in Handles, p \in OneByte, k \in Keys : CallWrite(h, p, k)
  \/ \E h \in Handles : CallRead(h, MaxSize)
  \/ \E h \in Handles : CallClose(h)
  \/ \E name \in TreePaths : CallMkdir(name)
  \/ \E name \in TreePaths : CallRemove(name)
  \/ \E name \in TreePaths : CallRemoveAll(name)
  \/ \E oldpath \in TreePaths, newpath \in TreePaths : CallRename(oldpath, newpath)
  \/ Resume

TreeSpec == Init /\ [][TreeNext]_vars

(***************************************************************************)
(* What the handles and paths of a state are, for the properties below.    *)
(***************************************************************************)
IsOpen(st, h) == st.files[h].node # 0
IsRegular(st, h) == ~IsDir(st.node[st.files[h].node])
Readable(st, h) == Access(st.files[h].flags) # O_WRONLY
Writable(st, h) == Access(st.files[h].flags) # O_RDONLY
Appending(st, h) == HasFlag(st.files[h].flags, O_APPEND)
SizeOf(st, h) == st.node[st.files[h].node].Size
ContentOf(st, h) == Content(st, st.files[h].node)
\* byte i of content c of size s once the file is n bytes long: kept or zero
Extended(c, s, i) == IF i <= s THEN c[i] ELSE 0

RoundTripPaths == { PathF, <<"f">> }

(***************************************************************************)
(* C1: round trip.  In every state, for every path p whose parent exists   *)
(* and every byte string b: create(p), write(b) and close succeed, and     *)
(* then reading the whole file at p returns exactly b and stat(p) reports  *)
(* the size len(b).                                                        *)
(***************************************************************************)
C1_RoundTrip ==
  ret = Idle =>
    \A p \in RoundTripPaths, b \in Buffers, k \in Keys :
      LET c == Create(St, p)
          w == Write(c.st, c.n, b, k)
          cl == Close(w.st, c.n)
          rf == ReadFile(cl.st, p)
          fi == FSStat(cl.st, p) IN
      /\ c.err = "nil" /\ w.err = "nil" /\ w.n = Len(b) /\ cl.err = "nil"
      /\ rf.err = "nil" /\ rf.out = b
      /\ fi.err = "nil" /\ fi.out = <<Len(b)>>

\* a file created, written with two bytes and closed has just been read back whole
C1_Witness ==
  /\ ret.op = "ReadFile" /\ ret.err = "nil" /\ ret.out = <<1, 2>>
  /\ \E h \in Handles :
        /\ files[h].flags = O_CREATE + O_RDWR + O_TRUNC
        /\ ~IsOpen(St, h)
        /\ files[h].offset = 2

HandleOps ==
  { "Read", "ReadAt", "Write", "WriteAt", "Seek", "Truncate", "Stat", "ReadDir",
    "Sync", "Close" }

(***************************************************************************)
(* C2: closed-file opacity.  A successful close leaves the handle closed;  *)
(* every read, read_at, write, write_at, seek, truncate, stat, read_dir,   *)
(* sync and close on a closed handle returns FileClosed and changes        *)
(* nothing; and no step makes a closed handle open again.                  *)
(***************************************************************************)
C2_ClosedOpacity ==
  [][ /\ \A h \in Handles : ~IsOpen(St, h) => files'[h].node = 0
      /\ (ret = Idle /\ ret'.op = "Close" /\ IsOpen(St, ret'.h))
            => ret'.err = "nil" /\ files'[ret'.h].node = 0
      /\ (ret = Idle /\ ret'.op \in HandleOps /\ ~IsOpen(St, ret'.h))
            => /\ ret'.err = "ErrClosed"
               /\ ret'.n = 0
               /\ UNCHANGED <<root, cwd, dir, ino, node, data, sealed, files>>
    ]_vars

\* a handle has been closed while the file still has content, and a write on it
\* has just been turned away
C2_Witness ==
  /\ ret.op = "Write" /\ ret.err = "ErrClosed"
  /\ ~IsOpen(St, ret.h)
  /\ Len(ret.args[1]) > 0
  /\ \E nd \in DOMAIN node : node[nd].Size > 0

\* the call was turned away for want of permission and changed nothing
Denied(st, r) == r.err = "ErrPermission" /\ r.n = 0 /\ r.st = st

C4_ReadResult ==
  ret = Idle =>
    \A h \in Handles : (IsOpen(St, h) /\ Readable(St, h) /\ IsRegular(St, h)) =>
      \A L \in BufLens \ {0} :
        LET o == files[h].offset
            s == SizeOf(St, h)
            n == Min(L, s - o)
            r == Read(St, h, L) IN
        IF o < s
        THEN /\ r.n = n
             /\ r.err = (IF n < L THEN "EOF" ELSE "nil")
             /\ r.st.files[h].offset = o + n
             /\ r.out = SubSeq(ContentOf(St, h), o + 1, o + n)
        ELSE r.n = 0 /\ r.err = "EOF" /\ r.st.files[h].offset = o

(***************************************************************************)
(* C5: positional write.  On an open writable regular-file handle not in   *)
(* append mode, on a file of size s with content c, write_at(b, k) with    *)
(* k >= 0 returns len(b) and leaves a file of size max(s, k + len(b))      *)
(* whose bytes [k, k+len(b)) are b, whose bytes [s, k) are zero and whose  *)
(* other bytes are those of c.                                             *)
(***************************************************************************)
C5_PositionalWrite ==
  ret = Idle =>
    \A h \in Handles :
      (IsOpen(St, h) /\ Writable(St, h) /\ IsRegular(St, h) /\ ~Appending(St, h)) =>
        \A b \in Buffers, k \in 0..(MaxSize + 1), key \in Keys :
          LET s == SizeOf(St, h)
              c == ContentOf(St, h)
              r == WriteAt(St, h, b, k, key)
              s2 == Max(s, k + Len(b))
              c2 == ContentOf(r.st, h) IN
          /\ r.err = "nil" /\ r.n = Len(b)
          /\ SizeOf(r.st, h) = s2 /\ Len(c2) = s2
          /\ \A i \in 1..s2 :
                c2[i] = IF i > k /\ i <= k + Len(b) THEN b[i - k] ELSE Extended(c, s, i)

\* a write_at one byte past the start of an empty file has left a zero and then b
C5_Witness ==
  /\ ret.op = "WriteAt" /\ ret.err = "nil" /\ ret.n = 1
  /\ ret.args[2] = 1
  /\ IsOpen(St, ret.h) /\ ~Appending(St, ret.h)
  /\ ContentOf(St, ret.h) = <<0>> \o ret.args[1]
  /\ SizeOf(St, ret.h) = 2

\* the regular file the path names in st, or 0
RegularAt(st, name) ==
  LET nd == Resolve(st.node, st.root, Abs(st.cwd, name)) IN
  IF nd # 0 /\ ~IsDir(st.node[nd]) THEN nd ELSE 0

(***************************************************************************)
(* C6: append.  Whatever the earlier handles on a file holding b are, open *)
(* or closed and at any offset, open(p, O_APPEND|O_RDWR) gives a handle    *)
(* whose offset is the file's size, and write(b2) and close on it leave    *)
(* the file holding b followed by b2.                                      *)
(***************************************************************************)
C6_Append ==
  (ret = Idle /\ RegularAt(St, PathF) # 0) =>
      \A b2 \in Buffers, k \in Keys :
        LET nd == RegularAt(St, PathF)
            b == Content(St, nd)
            o == OpenFile(St, PathF, O_APPEND + O_RDWR)
            w == Write(o.st, o.n, b2, k)
            cl == Close(w.st, o.n) IN
        /\ o.err = "nil"
        /\ o.st.files[o.n].offset = St.node[nd].Size
        /\ w.err = "nil" /\ w.n = Len(b2)
        /\ cl.err = "nil"
        /\ Content(cl.st, nd) = b \o b2
        /\ cl.st.node[nd].Size = Len(b) + Len(b2)

\* an append handle has just written one byte after the byte an earlier handle,
\* now at another offset, had left in the file
C6_Witness ==
  /\ ret.op = "Write" /\ ret.err = "nil" /\ ret.n = 1
  /\ IsOpen(St, ret.h) /\ Appending(St, ret.h)
  /\ SizeOf(St, ret.h) = 2
  /\ SubSeq(ContentOf(St, ret.h), 2, 2) = ret.args[1]
  /\ files[ret.h].offset = 2
  /\ \E h2 \in Handles : h2 # ret.h /\ files[h2].offset # 1

(***************************************************************************)
(* C7: write_at on an open handle that was opened with O_APPEND, whatever  *)
(* its access mode, fails with Permission and leaves the file's content    *)
(* and size and the handle's offset as they were.                          *)
(***************************************************************************)
C7_WriteAtAppend ==
  ret = Idle =>
    \A h \in Handles : (IsOpen(St, h) /\ Appending(St, h)) =>
      \A b \in Buffers, off \in 0..MaxSize, k \in Keys :
        Denied(St, WriteAt(St, h, b, off, k))

(***************************************************************************)
(* C8: handle truncate.  On an open writable regular-file handle on a file *)
(* of size s with content c, truncate(n) with n >= 0 succeeds and leaves a *)
(* file of size n whose first min(n, s) bytes are those of c and whose     *)
(* bytes [s, n) are zero; no handle's offset changes.                      *)
(***************************************************************************)
C8_HandleTruncate ==
  ret = Idle =>
    \A h \in Handles : (IsOpen(St, h) /\ Writable(St, h) /\ IsRegular(St, h)) =>
      \A n \in 0..(MaxSize + 1), k \in Keys :
        LET s == SizeOf(St, h)
            c == ContentOf(St, h)
            r == Truncate(St, h, n, k)
            c2 == ContentOf(r.st, h) IN
        /\ r.err = "nil"
        /\ SizeOf(r.st, h) = n /\ Len(c2) = n
        /\ \A i \in 1..n : c2[i] = Extended(c, s, i)
        /\ r.st.files = St.files

\* a truncate to two bytes has just extended a one-byte file with a zero, the
\* handle staying at offset 1
C8_Witness ==
  /\ ret.op = "Truncate" /\ ret.err = "nil" /\ ret.args[1] = 2
  /\ IsOpen(St, ret.h)
  /\ SizeOf(St, ret.h) = 2
  /\ ContentOf(St, ret.h) \in { <<1, 0>>, <<2, 0>> }
  /\ files[ret.h].offset = 1

(***************************************************************************)
(* C9: truncate by path.  For a regular file whose handles have all been   *)
(* closed, truncate(path, n) with n >= 0 returns Ok, and then stat(path)   *)
(* reports size n and reading the whole file returns n bytes: the first    *)
(* min(n, old size) as they were, the rest zero.                           *)
(***************************************************************************)
C9_TruncateByPath ==
  ret = Idle =>
    LET nd == RegularAt(St, PathF) IN
    (nd # 0 /\ \A h \in Handles : files[h].data = data[nd + 1] => ~IsOpen(St, h)) =>
      \A n \in 0..MaxSize, k \in Keys :
        LET s == St.node[nd].Size
            c == Content(St, nd)
            t == FSTruncate(St, PathF, n, k)
            fi == FSStat(t.st, PathF)
            rf == ReadFile(t.st, PathF) IN
        /\ t.err = "nil"
        /\ fi.err = "nil" /\ fi.out = <<n>>
        /\ rf.err = "nil" /\ Len(rf.out) = n
        /\ \A i \in 1..n : rf.out[i] = Extended(c, s, i)

(***************************************************************************)
(* C10: truncation to a negative size, by truncate(name, size) on the      *)
(* filesystem and by truncate(size) on an open writable handle, returns an *)
(* error of kind Invalid and leaves the file's size and content as they    *)
(* were.                                                                   *)
(***************************************************************************)
C10_NegativeTruncate ==
  ret = Idle =>
    \A size \in (0 - MaxNeg)..(0 - 1), k \in Keys :
      /\ \A name \in TruncatePaths :
            LET t == FSTruncate(St, name, size, k) IN
            t.err = "ErrInvalid" /\ t.st = St
      /\ \A h \in Handles : (IsOpen(St, h) /\ Writable(St, h)) =>
            LET t == Truncate(St, h, size, k) IN
            t.err = "ErrInvalid" /\ t.st = St

(***************************************************************************)
(* C11, as stated: a read on an open readable regular-file handle whose    *)
(* offset equals the file's size returns (0, EOF) for every buffer length, *)
(* zero included.                                                          *)
(***************************************************************************)
C11_EOFAtEnd_AsStated ==
  ret = Idle =>
    \A h \in Handles :
      (IsOpen(St, h) /\ Readable(St, h) /\ IsRegular(St, h)
         /\ files[h].offset = SizeOf(St, h)) =>
        \A L \in BufLens :
          LET r == Read(St, h, L) IN r.n = 0 /\ r.err = "EOF"

(***************************************************************************)
(* C11: a read on an open readable regular-file handle whose offset equals *)
(* the file's size returns (0, EOF) for every buffer of at least one byte  *)
(* and (0, nil) for a buffer of no bytes; neither changes anything.        *)
(***************************************************************************)
C11_EOFAtEnd ==
  ret = Idle =>
    \A h \in Handles :
      (IsOpen(St, h) /\ Readable(St, h) /\ IsRegular(St, h)
         /\ files[h].offset = SizeOf(St, h)) =>
        \A L \in BufLens :
          LET r == Read(St, h, L) IN
          r.n = 0 /\ r.err = (IF L = 0 THEN "nil" ELSE "EOF") /\ r.st = St

\* a read at the end of a file with content has just returned (0, EOF)
C11_Witness ==
  /\ ret.op = "Read" /\ ret.err = "EOF" /\ ret.n = 0 /\ ret.args[1] > 0
  /\ IsOpen(St, ret.h)
  /\ files[ret.h].offset = SizeOf(St, ret.h)
  /\ SizeOf(St, ret.h) > 0

(***************************************************************************)
(* C12: read_at and write_at, succeeding or failing, leave every handle's  *)
(* offset as it was, so the read or write that follows starts where it     *)
(* would have started without them.                                        *)
(***************************************************************************)
C12_OffsetFrame ==
  ret = Idle =>
    \A h \in Handles, off \in Offsets :
      /\ \A L \in BufLens :
            LET r == ReadAt(St, h, L, off) IN
            /\ r.st.files = St.files
            /\ \A L2 \in BufLens : Read(r.st, h, L2) = Read(St, h, L2)
      /\ \A b \in Buffers, k \in Keys :
            LET w == WriteAt(St, h, b, off, k) IN
            /\ w.st.files = St.files
            /\ \A b2 \in Buffers :
                  LET w2 == Write(w.st, h, b2, k) IN
                  w2.err = "nil" => w2.st.files[h].offset = files[h].offset + Len(b2)

\* a write_at has just written away from the handle's offset, which stays at 0
C12_Witness ==
  /\ ret.op = "WriteAt" /\ ret.err = "nil" /\ ret.n = 1
  /\ ret.args[2] = 1
  /\ IsOpen(St, ret.h)
  /\ files[ret.h].offset = 0
  /\ SizeOf(St, ret.h) = 2

(***************************************************************************)
(* C13: read_at and write_at with a negative offset on an open handle      *)
(* return an error of kind Invalid and change neither the file nor the     *)
(* handle.                                                                 *)
(***************************************************************************)
C13_NegativeOffset ==
  ret = Idle =>
    \A h \in Handles : IsOpen(St, h) =>
      \A off \in (0 - MaxNeg)..(0 - 1) :
        /\ \A L \in BufLens :
              LET r == ReadAt(St, h, L, off) IN r.err = "ErrInvalid" /\ r.st = St
        /\ \A b \in Buffers, k \in Keys :
              LET w == WriteAt(St, h, b, off, k) IN w.err = "ErrInvalid" /\ w.st = St

(***************************************************************************)
(* C14: the offset of an open handle is never negative: seek(offset,       *)
(* start) with offset < 0 and seek(offset, current) with the handle's      *)
(* offset + offset < 0 fail with Invalid and leave the offset as it was,   *)
(* and every successful seek returns the handle's new offset.              *)
(***************************************************************************)
C14_OffsetNonNegative ==
  /\ \A h \in Handles : IsOpen(St, h) => files[h].offset >= 0
  /\ ret = Idle =>
        \A h \in Handles : (IsOpen(St, h) /\ IsRegular(St, h)) =>
          \A offset \in Offsets, whence \in Whences :
            LET r == Seek(St, h, offset, whence)
                bad == \/ whence = SeekStart /\ offset < 0
                       \/ whence = SeekCurrent /\ files[h].offset + offset < 0 IN
            /\ bad => r.err = "ErrInvalid" /\ r.st = St
            /\ r.err = "nil" => r.n = r.st.files[h].offset /\ r.n >= 0

(***************************************************************************)
(* The directory tree as the properties below read it: entries are looked  *)
(* up by name, element by element, from the root.                          *)
(***************************************************************************)
EntryOf(st, d, name) ==
  IF d = 0 THEN 0
  ELSE IF \E i \in 1..Len(st.node[d].Dir) : st.node[d].Dir[i].Name = name
  THEN st.node[d].Dir[CHOOSE i \in 1..Len(st.node[d].Dir) :
                        st.node[d].Dir[i].Name = name].Inode
  ELSE 0

RECURSIVE LookupFrom(_, _, _)
LookupFrom(st, d, es) ==
  IF es = <<>> THEN d ELSE LookupFrom(st, EntryOf(st, d, Head(es)), Tail(es))

\* the inode at a path given by its elements, and at its parent, 0 if none
Lookup(st, es) == LookupFrom(st, st.root, es)
LookupParent(st, es) == LookupFrom(st, st.root, SubSeq(es, 1, Len(es) - 1))

NotExist(err) == err \in { "ErrNotExist", "ENOENT" }
Failed(r) == r.err \notin { "nil", "panic" }

\* names to open, each with its elements; the last three are malformed
OpenNames ==
  { <<PathF, << <<"f">> >> >>,
    <<PathG, << <<"g">> >> >>,
    <<PathGX, << <<"g">>, <<"x">> >> >>,
    <<PathF \o <<"/", "x">>, << <<"f">>, <<"x">> >> >>,
    << <<"/", "x", "/", "f">>, << <<"x">>, <<"f">> >> >>,
    << <<>>, <<>> >>,
    << <<"/", "g", "/", "/", "x">>, <<>> >>,
    << <<"/", "g", "/">>, <<>> >> }
OpenFlags ==
  { O_RDONLY, O_RDWR, O_WRONLY + O_CREATE, O_RDWR + O_CREATE + O_EXCL,
    O_RDONLY + O_TRUNC, O_RDWR + O_CREATE + O_TRUNC, O_RDONLY + O_CREATE + O_EXCL }

(***************************************************************************)
(* C15: open error outcomes.  open fails with Invalid for an empty or      *)
(* malformed name, NotExist when the parent does not resolve or the target *)
(* is missing and O_CREATE is not set, Exist when the target exists and    *)
(* O_CREATE|O_EXCL is set, IsADirectory when the target is a directory and *)
(* the access mode is not read-only or O_TRUNC is set, and with an error   *)
(* when the parent is not a directory; otherwise it succeeds; and every    *)
(* failing open leaves the whole state, with the tree, the inode counter   *)
(* and the slot table, as it was.                                          *)
(***************************************************************************)
C15_OpenErrors ==
  ret = Idle =>
    \A nm \in OpenNames, flag \in OpenFlags :
      LET r == OpenFile(St, nm[1], flag)
          es == nm[2]
          parent == LookupParent(St, es)
          target == Lookup(St, es)
          create == HasFlag(flag, O_CREATE) IN
      /\ r.err # "panic"
      /\ Failed(r) => r.st = St
      /\ IF es = <<>> THEN r.err = "ErrInvalid"
         ELSE IF parent = 0 THEN NotExist(r.err)
         ELSE IF ~IsDir(St.node[parent]) THEN Failed(r)
         ELSE IF target = 0 THEN (IF create THEN r.err = "nil" ELSE NotExist(r.err))
         ELSE IF create /\ HasFlag(flag, O_EXCL) THEN r.err = "ErrExist"
         ELSE IF IsDir(St.node[target])
                 /\ (Access(flag) # O_RDONLY \/ HasFlag(flag, O_TRUNC))
         THEN r.err = "EISDIR"
         ELSE r.err = "nil"

\* a create below a regular file has just failed at the link step, the inode
\* counter staying where the tree's two files left it
C15_Witness ==
  /\ ret.op = "OpenFile" /\ ret.err = "not a directory"
  /\ ret.args[1] = PathGX
  /\ Lookup(St, << <<"g">> >>) # 0
  /\ ~IsDir(node[Lookup(St, << <<"g">> >>)])
  /\ ino = 3
  /\ Len(data) = ino + 1

\* the elements of the paths of the tree
TreeElems(name) ==
  CASE name = PathF -> << <<"f">> >>
    [] name = PathG -> << <<"g">> >>
    [] name = PathGX -> << <<"g">>, <<"x">> >>

\* what remove(name) leaves behind when it returns Ok
C16_AfterRemove ==
  ret = Idle =>
    \A name \in TreePaths :
      LET old == Lookup(St, TreeElems(name))
          r == Remove(St, name) IN
      r.err = "nil" =>
        /\ old # 0
        /\ Lookup(r.st, TreeElems(name)) = 0
        /\ \A flag \in { O_RDONLY, O_RDWR, O_RDWR + O_TRUNC, O_WRONLY + O_APPEND } :
             NotExist(OpenFile(r.st, name, flag).err)
        /\ NotExist(FSStat(r.st, name).err)
        /\ LET o == OpenFile(r.st, name, O_RDWR + O_CREATE) IN
           /\ o.err = "nil"
           /\ IsOpen(o.st, o.n)
           /\ o.st.files[o.n].node = Lookup(o.st, TreeElems(name))
           /\ o.st.files[o.n].node > St.ino
           /\ o.st.files[o.n].node # old
           /\ IsRegular(o.st, o.n)
           /\ SizeOf(o.st, o.n) = 0
           /\ ContentOf(o.st, o.n) = <<>>
           /\ Read(o.st, o.n, MaxSize).n = 0
           /\ FSStat(o.st, name).out = <<0>>

\* a path that does not resolve starts to resolve only by a create, a mkdir
\* or a rename
C16_Installs ==
  \A name \in TreePaths :
    (Lookup(St, TreeElems(name)) = 0 /\ Lookup(St, TreeElems(name))' # 0)
      => ret'.op \in { "OpenFile", "Mkdir", "Rename" }

(***************************************************************************)
(* C16: after remove(p) returns Ok, p no longer resolves: open(p) without  *)
(* O_CREATE and stat(p) fail with NotExist, and p stays unresolved until a *)
(* create, a mkdir or a rename installs an entry at p; open(p, O_CREATE)   *)
(* then yields a new, empty regular file with an inode number never used   *)
(* before, not the removed file's content.                                 *)
(***************************************************************************)
C16_RemoveThenOpen == []C16_AfterRemove /\ [][C16_Installs]_vars

\* a regular file holding a byte has just been removed, and its path does
\* not resolve
C16_Witness ==
  /\ ret.op = "Remove" /\ ret.err = "nil" /\ ret.args[1] = PathF
  /\ Lookup(St, TreeElems(PathF)) = 0
  /\ \E nd \in 2..ino : node[nd].Nlink = 0 /\ node[nd].Size > 0

\* the entries of directory d other than "." and ".."
Entries(st, d) ==
  { i \in 1..Len(st.node[d].Dir) :
      st.node[d].Dir[i].Name \notin { <<".">>, <<".", ".">> } }

(***************************************************************************)
(* C17: remove(p) on a directory holding an entry other than "." and ".."  *)
(* fails and leaves the state as it was; remove(p) on a directory holding  *)
(* only "." and ".." succeeds and p no longer resolves; so a tree goes     *)
(* leaf first: while the leaf /g/x is all that /g holds remove(/g) fails,  *)
(* and after remove(/g/x) remove(/g) succeeds and stat(/g) is NotExist.    *)
(***************************************************************************)
C17_RemoveDirectory ==
  ret = Idle =>
    /\ \A name \in TreePaths :
         LET d == Lookup(St, TreeElems(name))
             r == Remove(St, name) IN
         (d # 0 /\ IsDir(St.node[d])) =>
           IF Entries(St, d) # {}
           THEN Failed(r) /\ r.st = St
           ELSE /\ r.err = "nil"
                /\ Lookup(r.st, TreeElems(name)) = 0
                /\ NotExist(FSStat(r.st, name).err)
    /\ LET g == Lookup(St, TreeElems(PathG))
           r1 == Remove(St, PathGX)
           r2 == Remove(r1.st, PathG) IN
       (/\ g # 0
        /\ Lookup(St, TreeElems(PathGX)) # 0
        /\ Cardinality(Entries(St, g)) = 1
        /\ IsDir(St.node[Lookup(St, TreeElems(PathGX))])
             => Entries(St, Lookup(St, TreeElems(PathGX))) = {}) =>
         /\ Failed(Remove(St, PathG))
         /\ r1.err = "nil"
         /\ r2.err = "nil"
         /\ NotExist(FSStat(r2.st, PathG).err)
         /\ NotExist(FSStat(r2.st, PathGX).err)

\* remove(/g) has just been refused while /g/x exists, and the tree still
\* holds both
C17_Witness ==
  /\ ret.op = "Remove" /\ ret.err = "directory not empty"
  /\ ret.args[1] = PathG
  /\ Lookup(St, TreeElems(PathG)) # 0
  /\ Lookup(St, TreeElems(PathGX)) # 0

(***************************************************************************)
(* C18: after remove(name) of a regular file returns Ok, the sealed slot   *)
(* that belonged to the file holds neither ciphertext nor key.             *)
(***************************************************************************)
C18_RemoveClearsSlot ==
  ret = Idle =>
    \A name \in TreePaths :
      LET nd == Lookup(St, TreeElems(name))
          r == Remove(St, name) IN
      (nd # 0 /\ ~IsDir(St.node[nd]) /\ r.err = "nil") =>
        \/ r.st.data[nd + 1] = 0
        \/ /\ r.st.sealed[r.st.data[nd + 1]].ciphertext = NilCipher
           /\ r.st.sealed[r.st.data[nd + 1]].key = 0

\* handle h on a regular file works on content c of size s: stat and the
\* reads give c, and write, seek and truncate succeed and show in the reads
\* and in stat that follow
Usable(st, h, c, s) ==
  /\ Stat(st, h).err = "nil" /\ Stat(st, h).out = <<s>>
  /\ Seek(st, h, 0, SeekStart).err = "nil"
  /\ Readable(st, h) =>
       /\ ReadAt(st, h, MaxSize, 0).out = c
       /\ ReadAt(st, h, MaxSize, 0).err \in { "nil", "EOF" }
       /\ Read(Seek(st, h, 0, SeekStart).st, h, MaxSize).out = c
  /\ (Writable(st, h) /\ ~Appending(st, h)) =>
       /\ \A p \in OneByte, k \in Keys :
            LET w == Write(Seek(st, h, 0, SeekStart).st, h, p, k) IN
            /\ w.err = "nil" /\ w.n = 1
            /\ Stat(w.st, h).out = <<Max(s, 1)>>
            /\ Readable(st, h) =>
                 ReadAt(w.st, h, MaxSize, 0).out = p \o SubSeq(c, 2, s)
       /\ \A n \in 0..MaxSize, k \in Keys :
            LET t == Truncate(st, h, n, k) IN
            /\ t.err = "nil"
            /\ Stat(t.st, h).out = <<n>>
            /\ Readable(st, h) =>
                 ReadAt(t.st, h, MaxSize, 0).out = [i \in 1..n |-> Extended(c, s, i)]
  /\ Close(st, h).err = "nil"

\* the removals of the paths of the tree
Removals(st) ==
  { Remove(st, name) : name \in TreePaths } \cup { RemoveAll(st, name) : name \in TreePaths }

(***************************************************************************)
(* C19: unlink while open.  A handle open on a regular file stays usable   *)
(* over remove(path) and remove_all of an ancestor: a removal that returns *)
(* Ok leaves the handles and the file's content and size as they were, and *)
(* after it, and in every later state while the handle is open (its inode  *)
(* linked nowhere), read and read_at return the bytes written, and write,  *)
(* seek, truncate and stat succeed and observe each other's effects.       *)
(***************************************************************************)
C19_UnlinkWhileOpen ==
  ret = Idle =>
    \A h \in Handles :
      (IsOpen(St, h) /\ IsRegular(St, h)) =>
        /\ St.node[St.files[h].node].Nlink = 0 =>
             Usable(St, h, ContentOf(St, h), SizeOf(St, h))
        /\ \A rm \in Removals(St) :
             rm.err = "nil" =>
               /\ rm.st.files = St.files
               /\ Usable(rm.st, h, ContentOf(St, h), SizeOf(St, h))

\* a read through a handle whose file is linked nowhere has just returned a
\* byte
C19_Witness ==
  /\ ret.op = "Read" /\ ret.err \in { "nil", "EOF" } /\ ret.n >= 1
  /\ IsOpen(St, ret.h)
  /\ node[files[ret.h].node].Nlink = 0
  /\ \A name \in TreePaths : Lookup(St, TreeElems(name)) # files[ret.h].node

(***************************************************************************)
(* C20: rename atomicity.  For every pair of paths (old, new), equal or    *)
(* distinct, rename(old, new) either returns Ok, after which new resolves  *)
(* to the inode old resolved to before the call, with its content, and old *)
(* no longer resolves, or returns an error, after which both paths resolve *)
(* exactly as before the call; when new named an existing regular file its *)
(* entry is replaced and its link count decremented.                       *)
(***************************************************************************)
C20_RenameAtomic ==
  ret = Idle =>
    \A oldpath \in TreePaths, newpath \in TreePaths :
      LET snode == Lookup(St, TreeElems(oldpath))
          target == Lookup(St, TreeElems(newpath))
          r == FSRename(St, oldpath, newpath) IN
      /\ r.err # "panic"
      /\ IF r.err = "nil"
         THEN /\ snode # 0
              /\ Lookup(r.st, TreeElems(newpath)) = snode
              /\ Lookup(r.st, TreeElems(oldpath)) = 0
              /\ Content(r.st, snode) = Content(St, snode)
              /\ r.st.node[snode].Size = St.node[snode].Size
              /\ (target # 0 /\ target # snode /\ ~IsDir(St.node[target])) =>
                   r.st.node[target].Nlink = St.node[target].Nlink - 1
         ELSE /\ Lookup(r.st, TreeElems(oldpath)) = snode
              /\ Lookup(r.st, TreeElems(newpath)) = target

\* the last element of a path of the tree
BaseOf(name) == TreeElems(name)[Len(TreeElems(name))]

(***************************************************************************)
(* C21: rename(old, new) with old a regular file and new an existing       *)
(* directory moves the file into the directory under its base name:        *)
(* afterwards new/base(old) resolves to the file's inode and old no longer *)
(* resolves.                                                               *)
(***************************************************************************)
C21_RenameIntoDirectory ==
  ret = Idle =>
    \A oldpath \in TreePaths, newpath \in TreePaths :
      LET snode == Lookup(St, TreeElems(oldpath))
          target == Lookup(St, TreeElems(newpath))
          r == FSRename(St, oldpath, newpath) IN
      (snode # 0 /\ ~IsDir(St.node[snode]) /\ target # 0 /\ IsDir(St.node[target])) =>
        /\ r.err = "nil"
        /\ Lookup(r.st, Append(TreeElems(newpath), BaseOf(oldpath))) = snode
        /\ Lookup(r.st, TreeElems(oldpath)) = 0

C23_Mkdir ==
  ret = Idle =>
    \A name \in TreePaths :
      LET target == Lookup(St, TreeElems(name))
          parent == LookupParent(St, TreeElems(name))
          r == Mkdir(St, name)
          d == Lookup(r.st, TreeElems(name)) IN
      /\ r.err # "panic"
      /\ r.err = "nil" =>
           /\ d > St.ino
           /\ IsDir(r.st.node[d])
           /\ Entries(r.st, d) = {}
           /\ EntryOf(r.st, d, <<".", ".">>) = LookupParent(r.st, TreeElems(name))
           /\ EntryOf(r.st, d, <<".">>) = d
      /\ target # 0 => r.err = "ErrExist"
      /\ (target = 0 /\ parent = 0) => NotExist(r.err)
      /\ (target = 0 /\ parent # 0 /\ ~IsDir(St.node[parent])) => Failed(r)
      /\ Failed(r) => r.st = St

\* the inodes the entries of the directories in S reference
Children(st, S) ==
  { st.node[d].Dir[k].Inode : <<d, k>> \in
      { x \in S \X (1..(MaxIno + 3)) : IsDir(st.node[x[1]]) /\ x[2] <= Len(st.node[x[1]].Dir) } }

\* the inodes of the tree: what the entries lead to from the root
RECURSIVE ReachFrom(_, _)
ReachFrom(st, S) ==
  IF Children(st, S) \subseteq S THEN S ELSE ReachFrom(st, S \cup Children(st, S))

Reach(st) == ReachFrom(st, { st.root })

\* the number of entries, over the directories of the tree, that reference i
RefCount(st, i) ==
  Cardinality({ x \in Reach(st) \X (1..(MaxIno + 3)) :
                  /\ IsDir(st.node[x[1]])
                  /\ x[2] <= Len(st.node[x[1]].Dir)
                  /\ st.node[x[1]].Dir[x[2]].Inode = i })

(***************************************************************************)
(* C27: link-count invariant.  After any sequence of create, mkdir,        *)
(* remove, remove_all and rename every inode of the tree has nlink equal   *)
(* to the number of directory entries that reference it; the root of a     *)
(* fresh filesystem has nlink 2, a fresh subdirectory has nlink 2 and      *)
(* raises its parent's nlink by one, and removing it by remove or          *)
(* remove_all lowers the parent's nlink back.                              *)
(***************************************************************************)
C27_LinkCount ==
  /\ \A i \in Reach(St) : node[i].Nlink = RefCount(St, i)
  /\ ino = 1 => node[root].Nlink = 2
  /\ ret = Idle =>
       \A name \in TreePaths :
         LET parent == LookupParent(St, TreeElems(name))
             m == Mkdir(St, name)
             d == Lookup(m.st, TreeElems(name)) IN
         (m.err = "nil" /\ d # 0) =>
           /\ m.st.node[d].Nlink = 2
           /\ m.st.node[parent].Nlink = St.node[parent].Nlink + 1
           /\ \A rm \in { Remove(m.st, name), RemoveAll(m.st, name) } :
                /\ rm.err = "nil"
                /\ rm.st.node[parent].Nlink = St.node[parent].Nlink

\* the directories of the tree
TreeDirs(st) == { d \in Reach(st) : IsDir(st.node[d]) }

(***************************************************************************)
(* C28: parent-link invariant.  After any sequence of mkdir, create,       *)
(* remove and rename, for every directory d of the tree the entry "." of d *)
(* references d and the entry ".." of d references the directory that      *)
(* holds d's entry, the root's ".." referencing the root.                  *)
(***************************************************************************)
C28_ParentLink ==
  /\ EntryOf(St, root, <<".", ".">>) = root
  /\ \A d \in TreeDirs(St) :
       /\ EntryOf(St, d, <<".">>) = d
       /\ \A k \in Entries(St, d) :
            IsDir(node[node[d].Dir[k].Inode]) =>
              EntryOf(St, node[d].Dir[k].Inode, <<".", ".">>) = d

(***************************************************************************)
(* The directory specification: create, mkdir, remove and rename on names  *)
(* that sort before ".", between "." and "..", and after "..".             *)
(***************************************************************************)
PathDash == <<"/", "-">>
PathFDotDash == <<"/", "f", "/", ".", "-">>
DirPaths == { PathDash, PathF, PathFDotDash }

DirNext ==
  \/ \E name \in DirPaths : CallOpenFile(name, O_RDWR + O_CREATE)
  \/ \E h \in Handles : CallClose(h)
  \/ \E name \in DirPaths : CallMkdir(name)
  \/ \E name \in DirPaths : CallRemove(name)
  \/ \E oldpath \in DirPaths, newpath \in DirPaths : CallRename(oldpath, newpath)
  \/ Resume

DirSpec == Init /\ [][DirNext]_vars

\* the directories that hold entries
Directories == { d \in 1..ino : IsDir(node[d]) /\ node[d].Dir # <<>> }

(***************************************************************************)
(* C29: in every directory, whatever the names of its other entries, the   *)
(* entry at index 0 is "." and the entry at index 1 is "..".               *)
(***************************************************************************)
C29_DotEntriesFirst ==
  \A d \in Directories :
    /\ Len(node[d].Dir) >= 2
    /\ node[d].Dir[1].Name = <<".">>
    /\ node[d].Dir[2].Name = <<".", ".">>

\* the names to link: the ones in use and one more
LinkNames == { <<"-">>, <<".">>, <<".", ".">>, <<".", "-">>, <<"f">>, <<"g">> }

\* the entries of d are strictly increasing in byte-wise name order
Sorted(Dir) == \A k \in 1..(Len(Dir) - 1) : StrLess(Dir[k].Name, Dir[k + 1].Name)

(***************************************************************************)
(* C30: after any sequence of link, unlink, create, mkdir, remove and      *)
(* rename the entries of every directory are strictly increasing in        *)
(* byte-wise name order, so no two have the same name; link on an existing *)
(* name replaces the entry in place, lowering the old target's nlink and   *)
(* raising the new target's, and link on a new name adds one entry;        *)
(* unlink takes out the one entry of the name.                             *)
(***************************************************************************)
C30_SortedEntries ==
  /\ \A d \in Directories :
       /\ Sorted(node[d].Dir)
       /\ \A j, k \in 1..Len(node[d].Dir) :
            node[d].Dir[j].Name = node[d].Dir[k].Name => j = k
  /\ ret = Idle =>
       \A d \in Directories, name \in LinkNames, child \in 1..ino :
         LET l == Link(node, d, name, child)
             u == Unlink(node, d, name)
             old == EntryOf(St, d, name)
             Before == node[d].Dir
             After == l.node[d].Dir
             Names(D) == { D[k].Name : k \in 1..Len(D) } IN
         /\ l.err = "nil"
         /\ l.err = "nil" =>
              /\ Len(After) >= Len(Before)
              /\ Sorted(After)
              /\ EntryOf([St EXCEPT !.node = l.node], d, name) = child
              /\ Names(After) = Names(Before) \cup { name }
              /\ \A k \in 1..Len(After) :
                   After[k].Name # name =>
                     After[k].Inode = EntryOf(St, d, After[k].Name)
              /\ IF old # 0
                 THEN /\ Len(After) = Len(Before)
                      /\ \A k \in 1..Len(Before) :
                           Before[k].Name # name => After[k] = Before[k]
                      /\ old # child =>
                           /\ l.node[old].Nlink = node[old].Nlink - 1
                           /\ l.node[child].Nlink = node[child].Nlink + 1
                      /\ old = child => l.node[child].Nlink = node[child].Nlink
                 ELSE /\ Len(After) = Len(Before) + 1
                      /\ l.node[child].Nlink = node[child].Nlink + 1
         /\ old # 0 =>
              /\ u.err = "nil"
              /\ Sorted(u.node[d].Dir)
              /\ Names(u.node[d].Dir) = Names(Before) \ { name }
              /\ Len(u.node[d].Dir) = Len(Before) - 1
         /\ old = 0 => u.err = "ErrNotExist" /\ u.node = node

\* a rename onto an existing regular file has just replaced its entry in a
\* root that holds a name below "." and a name above ".."
C30_Witness ==
  /\ ret.op = "Rename" /\ ret.err = "nil"
  /\ ret.args = <<PathF, PathDash>>
  /\ Len(node[root].Dir) = 3
  /\ node[root].Dir[1].Name = <<"-">>
  /\ ino = 3
  /\ \E a, b \in 2..3 :
       /\ a # b
       /\ ~IsDir(node[a]) /\ ~IsDir(node[b])
       /\ node[a].Nlink = 1 /\ node[b].Nlink = 0
       /\ node[root].Dir[1].Inode = a

(***************************************************************************)
(* Goroutines on the handles of one file.  thread[t] is what goroutine t   *)
(* is doing: the call it is in, the place it has reached (pc), and the     *)
(* locals it holds (the offset it works at, the key it opened, the         *)
(* plaintext it decrypted); log is the list of the calls it has made.  A   *)
(* region under f.mtx and the unlocked reads next to it are taken as one   *)
(* step, so the steps below are some of the interleavings of the code, not *)
(* all of them.  A goroutine that dereferences f.node after Close has set  *)
(* it to nil panics.                                                       *)
(***************************************************************************)
Threads == DOMAIN thread

IdleThread ==
  [pc |-> "idle", op |-> "none", h |-> 0, p |-> <<>>, L |-> 0, off |-> 0, at |-> FALSE,
   size |-> 0, key |-> 0, plaintext |-> <<>>, n |-> 0, err |-> "nil", out |-> <<>>,
   name |-> <<>>, parent |-> 0, ino |-> 0, made |-> FALSE, log |-> <<>>,
   rl |-> {}, wl |-> {}, leaked |-> {}]

\* NewFS as a state record
NewFS ==
  [root |-> 1, cwd |-> <<"/">>, dir |-> 1, ino |-> 1, node |-> NewDir(<<>>, 1),
   data |-> <<0, 0>>, sealed |-> <<>>, files |-> <<>>]

\* the two bytes the file holds when the goroutines start
RaceContent == <<1, 2>>

\* /f created and written through handle 1, rewound, and opened again as
\* handle 2
RaceStart ==
  LET o1 == OpenFile(NewFS, PathF, O_RDWR + O_CREATE).st
      w == Write(o1, 1, RaceContent, 1).st
      s == Seek(w, 1, 0, SeekStart).st IN
  OpenFile(s, PathF, O_RDWR).st

RaceInit ==
  /\ root = RaceStart.root
  /\ cwd = RaceStart.cwd
  /\ dir = RaceStart.dir
  /\ ino = RaceStart.ino
  /\ node = RaceStart.node
  /\ data = RaceStart.data
  /\ sealed = RaceStart.sealed
  /\ files = RaceStart.files
  /\ ret = Idle
  /\ thread = [t \in 1..NumThreads |-> IdleThread]

\* the state st becomes the program's state
Commit(st) ==
  /\ root' = st.root
  /\ cwd' = st.cwd
  /\ dir' = st.dir
  /\ ino' = st.ino
  /\ node' = st.node
  /\ data' = st.data
  /\ sealed' = st.sealed
  /\ files' = st.files
  /\ ret' = ret

\* no goroutine has panicked: the program is still running
Running == \A t \in Threads : thread[t].err # "panic"

\* goroutine t may make its next call
MayCall(t) ==
  /\ Running
  /\ thread[t].pc = "idle"
  /\ Len(thread[t].log) < ThreadOps

\* goroutine t is at pc
At(t, pc) == Running /\ thread[t].pc = pc

\* fastrand.Bytes(keySize): a key no other encryption has used
FreshKey(t) == 1 + NumThreads * Len(thread[t].log) + t - NumThreads

\* the record of goroutine t once it has entered a call
Started(t, op, h, p, L, off, at, size, pc) ==
  [thread[t] EXCEPT !.pc = pc, !.op = op, !.h = h, !.p = p, !.L = L, !.off = off,
                    !.at = at, !.size = size, !.key = 0, !.plaintext = <<>>,
                    !.n = 0, !.err = "nil", !.out = <<>>,
                    !.name = <<>>, !.parent = 0, !.ino = 0, !.made = FALSE,
                    !.log = Append(@, [op |-> op, h |-> h, p |-> p, off |-> off])]

\* the record of a goroutine whose call has returned (n, err, out)
Done(rec, n, err, out) ==
  [rec EXCEPT !.pc = "idle", !.n = n, !.err = err, !.out = out,
              !.key = 0, !.plaintext = <<>>]

\* file.Read and file.ReadAt up to the read of f.node.Size
EnterRead(t, op, h, L, off, at) ==
  /\ MayCall(t)
  /\ \E rec \in { Started(t, op, h, <<>>, L, off, at, 0, "read_key") } :
       thread' = [thread EXCEPT ![t] =
                    IF files[h].node = 0 THEN Done(rec, 0, "ErrClosed", <<>>)
                    ELSE IF Access(files[h].flags) = O_WRONLY
                    THEN Done(rec, 0, "ErrPermission", <<>>)
                    ELSE rec]
  /\ Commit(St)

GoRead(t, h, L) == EnterRead(t, "Read", h, L, files[h].offset, FALSE)
GoReadAt(t, h, L, off) == EnterRead(t, "ReadAt", h, L, off, TRUE)

\* file.read: the size checks and the key opened under f.mtx.RLock
StepReadKey(t) ==
  /\ At(t, "read_key")
  /\ LET r == thread[t]
         f == files[r.h] IN
     thread' = [thread EXCEPT ![t] =
                  IF f.node = 0 THEN Done(r, 0, "panic", <<>>)
                  ELSE IF r.off >= node[f.node].Size \/ node[f.node].Size = 0
                  THEN Done(r, 0, "EOF", <<>>)
                  ELSE IF sealed[f.data].key = 0 THEN Done(r, 0, "panic", <<>>)
                  ELSE [r EXCEPT !.key = sealed[f.data].key, !.pc = "read_decrypt"]]
  /\ Commit(St)

\* file.read: the buffer of f.node.Size bytes, core.Decrypt under the second
\* f.mtx.RLock, the copy to p and, in Read, the offset moved on
StepReadDecrypt(t) ==
  /\ At(t, "read_decrypt")
  /\ LET r == thread[t]
         f == files[r.h] IN
     IF f.node = 0
     THEN thread' = [thread EXCEPT ![t] = Done(r, 0, "panic", <<>>)] /\ Commit(St)
     ELSE \E dec \in { Decrypt(sealed[f.data].ciphertext, r.key, node[f.node].Size) } :
            IF dec.err # "nil"
            THEN thread' = [thread EXCEPT ![t] = Done(r, 0, dec.err, <<>>)] /\ Commit(St)
            ELSE IF r.off > Len(dec.plaintext)
            THEN thread' = [thread EXCEPT ![t] = Done(r, 0, "panic", <<>>)] /\ Commit(St)
            ELSE \E n \in { Min(r.L, Len(dec.plaintext) - r.off) } :
                   /\ thread' = [thread EXCEPT ![t] =
                                   Done(r, n, IF r.L > n THEN "EOF" ELSE "nil",
                                        SubSeq(dec.plaintext, r.off + 1, r.off + n))]
                   /\ Commit(IF r.at THEN St
                             ELSE [St EXCEPT !.files[r.h].offset = @ + n])

\* file.Write and file.WriteAt up to the read of f.node.Size
EnterWrite(t, op, h, p, off, at) ==
  /\ MayCall(t)
  /\ \E rec \in { Started(t, op, h, p, 0, off, at, 0, "write_decrypt") } :
       thread' = [thread EXCEPT ![t] =
                    IF files[h].node = 0 THEN Done(rec, 0, "ErrClosed", <<>>)
                    ELSE IF Access(files[h].flags) = O_RDONLY
                    THEN Done(rec, 0, "ErrPermission", <<>>)
                    ELSE rec]
  /\ Commit(St)

GoWrite(t, h, p) == EnterWrite(t, "Write", h, p, files[h].offset, FALSE)
GoWriteAt(t, h, p, off) == EnterWrite(t, "WriteAt", h, p, off, TRUE)

\* file.write: the plaintext of f.node.Size bytes, decrypted under f.mtx.RLock
StepWriteDecrypt(t) ==
  /\ At(t, "write_decrypt")
  /\ LET r == thread[t]
         f == files[r.h] IN
     thread' = [thread EXCEPT ![t] =
                  IF f.node = 0 THEN Done(r, 0, "panic", <<>>)
                  ELSE IF node[f.node].Size = 0
                  THEN [r EXCEPT !.plaintext = <<>>, !.pc = "write_store"]
                  ELSE IF sealed[f.data].key = 0 THEN Done(r, 0, "panic", <<>>)
                  ELSE The({ IF dec.err # "nil" THEN Done(r, 0, dec.err, <<>>)
                             ELSE [r EXCEPT !.plaintext = dec.plaintext, !.pc = "write_store"]
                             : dec \in { Decrypt(sealed[f.data].ciphertext,
                                                 sealed[f.data].key,
                                                 node[f.node].Size) } })]
  /\ Commit(St)

\* file.write: the new data built from the plaintext held, encrypted under a
\* fresh key and stored with the size under f.mtx.Lock, and, in Write, the
\* offset moved on
StepWriteStore(t) ==
  /\ At(t, "write_store")
  /\ LET r == thread[t]
         f == files[r.h]
         size == Len(r.p) + r.off IN
     IF f.node = 0
     THEN thread' = [thread EXCEPT ![t] = Done(r, 0, "panic", <<>>)] /\ Commit(St)
     ELSE \E data0 \in { IF size > node[f.node].Size
                         THEN Copy(Zeros(size), r.plaintext) ELSE r.plaintext } :
            IF r.off > Len(data0)
            THEN thread' = [thread EXCEPT ![t] = Done(r, 0, "panic", <<>>)] /\ Commit(St)
            ELSE \E ct \in { Encrypt(CopyAt(data0, r.off, r.p), FreshKey(t)) },
                    n \in { Min(Len(r.p), Len(data0) - r.off) } :
                   /\ thread' = [thread EXCEPT ![t] = Done(r, n, "nil", <<>>)]
                   /\ Commit([St EXCEPT !.sealed[f.data].ciphertext = ct,
                                        !.sealed[f.data].key = FreshKey(t),
                                        !.node[f.node].Size = updateSize(ct),
                                        !.files[r.h].offset = IF r.at THEN @ ELSE @ + n])

\* file.Truncate up to f.mtx.Lock
GoTruncate(t, h, size) ==
  /\ MayCall(t)
  /\ \E rec \in { Started(t, "Truncate", h, <<>>, 0, 0, FALSE, size, "truncate_body") } :
       thread' = [thread EXCEPT ![t] =
                    IF files[h].node = 0 THEN Done(rec, 0, "ErrClosed", <<>>)
                    ELSE IF Access(files[h].flags) = O_RDONLY
                    THEN Done(rec, 0, "ErrPermission", <<>>)
                    ELSE rec]
  /\ Commit(St)

\* file.Truncate under f.mtx.Lock
StepTruncate(t) ==
  /\ At(t, "truncate_body")
  /\ LET r == thread[t] IN
     IF files[r.h].node = 0
     THEN thread' = [thread EXCEPT ![t] = Done(r, 0, "panic", <<>>)] /\ Commit(St)
     ELSE \E tr \in { Truncate(St, r.h, r.size, FreshKey(t)) } :
            /\ thread' = [thread EXCEPT ![t] = Done(r, 0, tr.err, <<>>)]
            /\ Commit(tr.st)

\* file.Close: the Sync it starts with
GoClose(t, h) ==
  /\ MayCall(t)
  /\ \E rec \in { Started(t, "Close", h, <<>>, 0, 0, FALSE, 0, "close_nil") },
        sy \in { Sync(St, h) } :
       /\ thread' = [thread EXCEPT ![t] =
                       IF sy.err # "nil" THEN Done(rec, 0, sy.err, <<>>) ELSE rec]
       /\ Commit(sy.st)

\* file.Close: f.node = nil under f.mtx.Lock
StepCloseNil(t) ==
  /\ At(t, "close_nil")
  /\ thread' = [thread EXCEPT ![t] = Done(thread[t], 0, "nil", <<>>)]
  /\ Commit([St EXCEPT !.files[thread[t].h].node = 0])

\* file.Seek(0, io.SeekStart)
GoSeek(t, h) ==
  /\ MayCall(t)
  /\ \E rec \in { Started(t, "Seek", h, <<>>, 0, 0, FALSE, 0, "idle") },
        sk \in { Seek(St, h, 0, SeekStart) } :
       /\ thread' = [thread EXCEPT ![t] = Done(rec, sk.n, sk.err, <<>>)]
       /\ Commit(sk.st)

\* pbFS.Remove of the file
GoRemove(t) ==
  /\ MayCall(t)
  /\ \E rec \in { Started(t, "Remove", 0, <<>>, 0, 0, FALSE, 0, "idle") },
        rm \in { Remove(St, PathF) } :
       /\ thread' = [thread EXCEPT ![t] = Done(rec, 0, rm.err, <<>>)]
       /\ Commit(rm.st)

\* the byte goroutine t writes
ByteOf(t) == <<2 + t>>

RaceNext ==
  \/ \E t \in Threads, h \in Handles : GoRead(t, h, MaxSize)
  \/ \E t \in Threads, h \in Handles, off \in 0..1 : GoReadAt(t, h, 1, off)
  \/ \E t \in Threads : StepReadKey(t)
  \/ \E t \in Threads : StepReadDecrypt(t)
  \/ \E t \in Threads, h \in Handles : GoWrite(t, h, ByteOf(t))
  \/ \E t \in Threads, h \in Handles, off \in 0..1 : GoWriteAt(t, h, ByteOf(t), off)
  \/ \E t \in Threads : StepWriteDecrypt(t)
  \/ \E t \in Threads : StepWriteStore(t)
  \/ \E t \in Threads, h \in Handles, size \in 0..1 : GoTruncate(t, h, size)
  \/ \E t \in Threads : StepTruncate(t)
  \/ \E t \in Threads, h \in Handles : GoClose(t, h)
  \/ \E t \in Threads : StepCloseNil(t)
  \/ \E t \in Threads, h \in Handles : GoSeek(t, h)
  \/ \E t \in Threads : GoRemove(t)

RaceSpec == RaceInit /\ [][RaceNext]_vars

(***************************************************************************)
(* C24: concurrent use does not corrupt.  With two goroutines making calls *)
(* of write, write_at, truncate, read, read_at, seek, close and remove on  *)
(* handles of the same file, under every interleaving no call crashes and  *)
(* every error returned is one of NotExist, FileClosed, EOF or Permission; *)
(* no read or write fails to decrypt.                                      *)
(***************************************************************************)
C24_ConcurrentUse ==
  \A t \in Threads :
    thread[t].err \in { "nil", "ErrNotExist", "ErrClosed", "EOF", "ErrPermission" }

\* the call e of a log made alone on state st
Serially(st, e) ==
  IF e.op = "Write" THEN Write(st, e.h, e.p, 1).st
  ELSE WriteAt(st, e.h, e.p, e.off, 1).st

\* the contents of inode nd that the writes of the logs l1 and l2 leave when
\* they run one after the other from st, in every order that keeps each log's
RECURSIVE SerialContents(_, _, _, _)
SerialContents(st, nd, l1, l2) ==
  IF l1 = <<>> /\ l2 = <<>> THEN { Content(st, nd) }
  ELSE (IF l1 = <<>> THEN {}
        ELSE SerialContents(Serially(st, Head(l1)), nd, Tail(l1), l2))
       \cup
       (IF l2 = <<>> THEN {}
        ELSE SerialContents(Serially(st, Head(l2)), nd, l1, Tail(l2)))

\* the inode of the file the goroutines share
RaceNode == RaceStart.files[1].node

(***************************************************************************)
(* C25: concurrent writes to the same file, through one handle or through  *)
(* two handles on the same path, exclude each other over the whole         *)
(* decrypt-modify-encrypt step: once the writes of the two goroutines have *)
(* returned, the content is the content some serial order of them leaves,  *)
(* so two write_at calls on disjoint byte ranges both persist.             *)
(***************************************************************************)
C25_WritesSerialize ==
  (/\ thread # <<>>
   /\ \A t \in Threads :
        /\ thread[t].pc = "idle"
        /\ thread[t].log # <<>>
        /\ \A i \in 1..Len(thread[t].log) : thread[t].log[i].op \in { "Write", "WriteAt" })
    => Content(St, RaceNode) \in
         SerialContents(RaceStart, RaceNode, thread[1].log, thread[2].log)

(***************************************************************************)
(* Goroutines that create: pbFS.OpenFile with O_CREATE takes no lock, so   *)
(* its statements interleave with those of another OpenFile and with       *)
(* pbFS.Mkdir, whose body runs under fs.mtx and is taken as one step.      *)
(* thread[t].ino is the inode number the call has read for its new inode   *)
(* and made says that the inode has been linked.  The inode table is keyed *)
(* by number: two inodes given the same number share one record.           *)
(***************************************************************************)
PathFX == PathF \o <<"/", "x">>
CreatePaths == { PathG, PathGX, PathFX }

\* pbFS.OpenFile(name, O_RDWR|O_CREATE) up to fs.ino.New: a name that
\* resolves, or whose parent does not, is settled at once
GoOpenFile(t, name) ==
  /\ MayCall(t)
  /\ Len(files) < MaxHandles + NumThreads
  /\ \E rec \in { Started(t, "OpenFile", 0, <<>>, 0, 0, FALSE, 0, "open_new") },
        parent \in { Resolve(node, root, Clean(Split(name)[1])) } :
       IF Resolve(node, root, name) # 0 \/ parent = 0
       THEN \E o \in { OpenFile(St, name, O_RDWR + O_CREATE) } :
              /\ thread' = [thread EXCEPT ![t] =
                              Done([rec EXCEPT !.name = name, !.h = o.n], 0, o.err, <<>>)]
              /\ Commit(o.st)
       ELSE /\ thread' = [thread EXCEPT ![t] =
                            [rec EXCEPT !.name = name, !.parent = parent]]
            /\ Commit(St)

\* Ino.New: atomic.AddUint64(n, 1)
StepOpenNew(t) ==
  /\ At(t, "open_new")
  /\ thread' = [thread EXCEPT ![t].pc = "open_ino"]
  /\ Commit([St EXCEPT !.ino = @ + 1])

\* Ino.New: Ino: uint64(*n), the counter read after the addition
StepOpenIno(t) ==
  /\ At(t, "open_ino")
  /\ thread' = [thread EXCEPT ![t].pc = "open_link", ![t].ino = ino]
  /\ Commit(St)

\* parent.Link(filename, node), and fs.ino.SubIno() when it fails
StepOpenLink(t) ==
  /\ At(t, "open_link")
  /\ LET r == thread[t] IN
     \E l \in { Link(node @@ (r.ino :> New("regular")), r.parent, Split(r.name)[2], r.ino) } :
       IF l.err # "nil"
       THEN /\ thread' = [thread EXCEPT ![t] = Done(r, 0, l.err, <<>>)]
            /\ Commit([St EXCEPT !.ino = @ - 1])
       ELSE /\ thread' = [thread EXCEPT ![t].pc = "open_append", ![t].made = TRUE]
            /\ Commit([St EXCEPT !.node = l.node])

\* fs.data = append(fs.data, new(sealedFile))
StepOpenAppend(t) ==
  /\ At(t, "open_append")
  /\ thread' = [thread EXCEPT ![t].pc = "open_slot"]
  /\ Commit([St EXCEPT !.sealed = Append(@, NewSealedFile),
                       !.data = Append(@, Len(sealed) + 1)])

\* data := fs.data[int(node.Ino)] and the handle returned
StepOpenSlot(t) ==
  /\ At(t, "open_slot")
  /\ LET r == thread[t] IN
     IF r.ino + 1 > Len(data)
     THEN thread' = [thread EXCEPT ![t] = Done(r, 0, "panic", <<>>)] /\ Commit(St)
     ELSE \E o \in { OpenNode(St, r.name, O_RDWR + O_CREATE, r.ino) } :
            /\ thread' = [thread EXCEPT ![t] = Done([r EXCEPT !.h = o.n], 0, o.err, <<>>)]
            /\ Commit(o.st)

\* pbFS.Mkdir, its body under fs.mtx
GoMkdir(t, name) ==
  /\ MayCall(t)
  /\ \E rec \in { Started(t, "Mkdir", 0, <<>>, 0, 0, FALSE, 0, "idle") },
        m \in { Mkdir(St, name) } :
       /\ thread' = [thread EXCEPT ![t] =
                       Done([rec EXCEPT !.name = name,
                                        !.ino = IF m.err = "nil" THEN m.st.ino ELSE 0,
                                        !.made = m.err = "nil" /\ Resolve(m.st.node, m.st.root, name) # 0],
                            0, m.err, <<>>)]
       /\ Commit(m.st)

CreateNext ==
  \/ \E t \in Threads, name \in CreatePaths : GoOpenFile(t, name)
  \/ \E t \in Threads : StepOpenNew(t)
  \/ \E t \in Threads : StepOpenIno(t)
  \/ \E t \in Threads : StepOpenLink(t)
  \/ \E t \in Threads : StepOpenAppend(t)
  \/ \E t \in Threads : StepOpenSlot(t)
  \/ \E t \in Threads, name \in CreatePaths : GoMkdir(t, name)

CreateSpec == RaceInit /\ [][CreateNext]_vars

(***************************************************************************)
(* C26: under every interleaving of concurrent open(O_CREATE) and mkdir    *)
(* calls, the ones whose link step fails and rolls back included, every    *)
(* created inode has a number distinct from every other live inode, each   *)
(* regular file gets its own slot, and the slot lookup by inode number     *)
(* that open performs is within the bounds of the slot table.              *)
(***************************************************************************)
C26_ConcurrentCreate ==
  /\ \A t \in Threads :
       /\ thread[t].err # "panic"
       /\ thread[t].made => thread[t].ino > RaceStart.ino
  /\ \A t, u \in Threads :
       (t # u /\ thread[t].made /\ thread[u].made) =>
         /\ thread[t].ino # thread[u].ino
         /\ (thread[t].h # 0 /\ thread[u].h # 0 /\ thread[t].op = "OpenFile"
             /\ thread[u].op = "OpenFile") =>
              files[thread[t].h].data # files[thread[u].h].data

\* the names of a directory's entries after "." and "..", in the order of Dir
Listing(st, d) == [i \in 1..(Len(st.node[d].Dir) - 2) |-> st.node[d].Dir[i + 2].Name]

\* repeated ReadDir(n), n > 0, on handle h returns rest in chunks of
\* min(n, remaining) names and then (empty, EOF)
RECURSIVE Enumerates(_, _, _, _)
Enumerates(st, h, n, rest) ==
  \E r \in { ReadDir(st, h, n) } :
    IF rest = <<>> THEN r.err = "EOF" /\ r.out = <<>>
    ELSE /\ r.err = "nil"
         /\ r.out = SubSeq(rest, 1, Min(n, Len(rest)))
         /\ Enumerates(r.st, h, n, SubSeq(rest, Len(r.out) + 1, Len(rest)))

\* the numbers of entries asked of ReadDir
DirCounts == 1..MaxIno

(***************************************************************************)
(* C31: directory enumeration.  On a freshly opened readable handle of a   *)
(* directory, repeated ReadDir(n) with n > 0 returns the entries other     *)
(* than "." and ".." in name order, each once, min(n, remaining) entries   *)
(* and none of them null per call, and then (empty, EOF); ReadDir(n <= 0)  *)
(* returns every remaining entry, and (empty, nil) when none remain.       *)
(***************************************************************************)
C31_ReadDir ==
  ret = Idle =>
    \A name \in { <<"/">>, PathF, PathG } :
      \E o \in { Open(St, name) } :
        (o.err = "nil" /\ IsDir(o.st.node[o.st.files[o.n].node])) =>
          \E rest \in { Listing(o.st, o.st.files[o.n].node) } :
            /\ \A n \in DirCounts : Enumerates(o.st, o.n, n, rest)
            /\ \A n \in { 0 - 1, 0 } :
                 \E r \in { ReadDir(o.st, o.n, n) } :
                   /\ r.err = "nil"
                   /\ r.out = rest
                   /\ \E e \in { ReadDir(r.st, o.n, n) } : e.err = "nil" /\ e.out = <<>>

(***************************************************************************)
(* The working directory: pbFS.Chdir and pbFS.MkdirAll, and the            *)
(* specification of a filesystem driven with absolute and relative, clean  *)
(* and unclean names, the empty name among them.                           *)
(***************************************************************************)

\* pbFS.Chdir
Chdir(st, name) ==
  IF name = <<"/">> THEN Ret([st EXCEPT !.cwd = <<"/">>, !.dir = st.root], 0, "nil", <<>>)
  ELSE LET nd == Resolve(st.node, WdOf(st, name), name) IN
       IF nd = 0 THEN Ret(st, 0, "ErrNotExist", <<>>)
       ELSE IF ~IsDir(st.node[nd]) THEN Ret(st, 0, "ENOTDIR", <<>>)
       ELSE Ret([st EXCEPT !.cwd = AbsOf(st, name), !.dir = nd], 0, "nil", <<>>)

\* the loop of pbFS.MkdirAll over the elements ps of the absolute name
RECURSIVE MkdirAllFrom(_, _, _)
MkdirAllFrom(st, dirpath, ps) ==
  IF ps = <<>> THEN Ret(st, 0, "nil", <<>>)
  ELSE \* each Mkdir result is named once
       The({ The({ IF m.err \notin { "nil", "ErrExist" } THEN Ret(st, 0, m.err, <<>>)
                   ELSE MkdirAllFrom(m.st, dp, Tail(ps))
                   : m \in { Mkdir(st, dp) } })
             : dp \in { Join(dirpath, IF Head(ps) = <<>> THEN <<"/">> ELSE Head(ps)) } })

\* pbFS.MkdirAll
MkdirAll(st, name) == MkdirAllFrom(st, <<>>, Elems(Abs(st.cwd, name)))

CallChdir(name) == Return("Chdir", 0, <<name>>, Chdir(St, name))

CallMkdirAll(name) == Return("MkdirAll", 0, <<name>>, MkdirAll(St, name))

\* the names given: "", "g", "/g", "/g/", ".."
CwdPaths == { <<>>, <<"g">>, PathG, <<"/", "g", "/">>, <<".", ".">> }

\* the link counts and the length of cwd stay within the model's bounds
LinksBounded ==
  /\ \A i \in DOMAIN node : node[i].Nlink <= MaxLinks
  /\ Len(cwd) <= MaxCwd

CwdNext ==
  \/ \E name \in CwdPaths : CallChdir(name) /\ LinksBounded'
  \/ \E name \in CwdPaths : CallOpenFile(name, O_RDWR + O_CREATE) /\ LinksBounded'
  \/ \E name \in CwdPaths : CallMkdir(name) /\ LinksBounded'
  \/ \E name \in CwdPaths : CallMkdirAll(name) /\ LinksBounded'
  \/ \E name \in CwdPaths : CallRemove(name)
  \/ \E name \in CwdPaths : CallRemoveAll(name)
  \/ \E oldpath \in CwdPaths, newpath \in CwdPaths :
        CallRename(oldpath, newpath) /\ LinksBounded'
  \/ Resume

CwdSpec == Init /\ [][CwdNext]_vars

\* the entry of directory d named name is in the tree nd
HasEntry(nd, d, name) ==
  d \in DOMAIN nd /\ \E i \in 1..Len(nd[d].Dir) : nd[d].Dir[i].Name = name

(***************************************************************************)
(* C32: no open with O_CREATE, Mkdir, MkdirAll or Rename, given any string *)
(* as a path, the empty string included, installs a directory entry whose  *)
(* name is empty or contains "/", and none replaces the entry of an        *)
(* existing directory with a fresh inode.                                  *)
(***************************************************************************)
C32_EntryNames ==
  [][(ret = Idle /\ ret'.op \in { "OpenFile", "Mkdir", "MkdirAll", "Rename" }) =>
       /\ \A d \in DOMAIN node' : \A i \in 1..Len(node'[d].Dir) :
            LET name == node'[d].Dir[i].Name IN
            ~HasEntry(node, d, name) => name # <<>> /\ Index(name, "/") = -1
       /\ \A d \in DOMAIN node : \A i \in 1..Len(node[d].Dir) :
            LET e == node[d].Dir[i] IN
            IsDir(node[e.Inode]) =>
              \A j \in 1..Len(node'[d].Dir) :
                node'[d].Dir[j].Name = e.Name => node'[d].Dir[j].Inode <= ino]_vars

(***************************************************************************)
(* C33: the working directory.  After any sequence of Chdir, Mkdir,        *)
(* Remove, RemoveAll and Rename, with absolute or relative, clean or       *)
(* unclean arguments, cwd is an absolute, lexically clean path and         *)
(* resolving cwd from the root yields the inode held in dir; a failing     *)
(* Chdir leaves cwd and dir as they were.                                  *)
(***************************************************************************)
C33_WorkingDirectory ==
  /\ IsAbs(cwd)
  /\ Clean(cwd) = cwd
  /\ Resolve(node, root, cwd) = dir
  /\ ret = Idle =>
       \A name \in CwdPaths :
         \E c \in { Chdir(St, name) } :
           c.err # "nil" => c.st.cwd = cwd /\ c.st.dir = dir

\* "/g/../f" and "/g/./x"
PathGUpF == <<"/", "g", "/", ".", ".", "/", "f">>
PathGDotX == <<"/", "g", "/", ".", "/", "x">>

\* two opens agree: both fail, or both succeed on handles of the same inode
SameOpen(a, b) ==
  /\ (a.err = "nil") = (b.err = "nil")
  /\ a.err = "nil" => a.st.files[a.n].node = b.st.files[b.n].node

(***************************************************************************)
(* C34: open accepts paths with "." and ".." components and resolves them  *)
(* through the ordinary directory entries: with /g a directory, opening    *)
(* "/g/../f" and "/g/./x" succeeds on the same inodes as opening "/f" and  *)
(* "/g/x"; no such name is rejected with Invalid.                          *)
(***************************************************************************)
C34_DotComponents ==
  (ret = Idle /\ Resolve(node, root, PathG) # 0 /\ IsDir(node[Resolve(node, root, PathG)])) =>
    \A flag \in { O_RDONLY, O_RDWR } :
      \E a \in { OpenFile(St, PathGUpF, flag) }, b \in { OpenFile(St, PathF, flag) },
         c \in { OpenFile(St, PathGDotX, flag) }, d \in { OpenFile(St, PathGX, flag) } :
        /\ SameOpen(a, b)
        /\ SameOpen(c, d)
        /\ a.err # "ErrInvalid" /\ c.err # "ErrInvalid"

\* the slot d holds neither ciphertext nor a sealed key
SlotEmpty(st, d) == st.sealed[d].ciphertext = NilCipher /\ st.sealed[d].key = 0

\* after a truncation to zero that left state st: the slot of inode nd is
\* empty, its size is 0 and a full read through a new handle returns no bytes
TruncatedToZero(st, nd) ==
  /\ SlotEmpty(st, st.data[nd + 1])
  /\ st.node[nd].Size = 0
  /\ \E o \in { Open(st, PathF) } :
       o.err = "nil" /\ \E r \in { Read(o.st, o.n, MaxSize) } : r.n = 0 /\ r.out = <<>>

(***************************************************************************)
(* C35: truncation to zero of a non-empty file, by Truncate(0) on a        *)
(* handle, by Truncate(path, 0) or by open with O_TRUNC, leaves the slot   *)
(* with no ciphertext and no sealed key and the inode size 0, and a        *)
(* following full read returns no bytes.                                   *)
(***************************************************************************)
C35_TruncateToZero ==
  ret = Idle =>
    \E nd \in { Resolve(node, root, PathF) } :
      (nd # 0 /\ node[nd].Size > 0) =>
        /\ \A h \in Handles, k \in Keys :
             \E t \in { Truncate(St, h, 0, k) } :
               (files[h].node = nd /\ t.err = "nil") => TruncatedToZero(t.st, nd)
        /\ \A k \in Keys :
             \E t \in { FSTruncate(St, PathF, 0, k) } :
               t.err = "nil" => TruncatedToZero(t.st, nd)
        /\ \E o \in { OpenFile(St, PathF, O_RDWR + O_TRUNC) } :
             o.err = "nil" => TruncatedToZero(o.st, nd)

(***************************************************************************)
(* core.Encrypt is a black box that may return an error.  file.write,      *)
(* file.Truncate and pbFS.Truncate assign what it returned to the slot's   *)
(* ciphertext, seal the new key into the slot and call updateSize, and     *)
(* only then look at err.  st is the state before the call and r the       *)
(* result of the call when core.Encrypt succeeds: a call that returned an  *)
(* error, or that ended before the encryption, is as it was.               *)
(***************************************************************************)
EncryptFails(st, r, d, nd, newKey, encrypts) ==
  IF r.err # "nil" \/ ~encrypts THEN r
  ELSE Ret([st EXCEPT !.sealed[d].ciphertext = NilCipher,
                      !.sealed[d].key = newKey,
                      !.node[nd].Size = updateSize(NilCipher)],
           0, "EncryptFailed", <<>>)

\* file.Write, file.WriteAt and file.Truncate when core.Encrypt fails
WriteEncryptFails(st, h, p, newKey) ==
  EncryptFails(st, Write(st, h, p, newKey), st.files[h].data, st.files[h].node, newKey, TRUE)

WriteAtEncryptFails(st, h, b, off, newKey) ==
  EncryptFails(st, WriteAt(st, h, b, off, newKey), st.files[h].data, st.files[h].node,
               newKey, TRUE)

TruncateEncryptFails(st, h, size, newKey) ==
  EncryptFails(st, Truncate(st, h, size, newKey), st.files[h].data, st.files[h].node,
               newKey, ~(st.node[st.files[h].node].Size = 0 /\ size = 0))

\* the slots, the inodes and the handles of r.st are those of st
Untouched(st, r) ==
  r.st.sealed = st.sealed /\ r.st.node = st.node /\ r.st.files = st.files

(***************************************************************************)
(* C36: if the encrypt step fails during Write, WriteAt or Truncate, the   *)
(* call returns an error, and the slot's ciphertext, its sealed key, the   *)
(* inode size and the handle offset are as they were before the call.      *)
(***************************************************************************)
C36_EncryptFailure ==
  ret = Idle =>
    \A h \in Handles, k \in Keys :
      /\ \A p \in Buffers :
           \E r \in { WriteEncryptFails(St, h, p, k) } :
             r.err = "EncryptFailed" => Untouched(St, r)
      /\ \A b \in Buffers, off \in Offsets :
           \E r \in { WriteAtEncryptFails(St, h, b, off, k) } :
             r.err = "EncryptFailed" => Untouched(St, r)
      /\ \A size \in Sizes :
           \E r \in { TruncateEncryptFails(St, h, size, k) } :
             r.err = "EncryptFailed" => Untouched(St, r)

(***************************************************************************)
(* Keys.  One caller whose record counts in key the keys fastrand has      *)
(* produced: fastrand.Bytes(keySize) is taken as a source of keys that do  *)
(* not repeat, the n-th key being n.  The caller's record holds the last   *)
(* call and its result.                                                    *)
(***************************************************************************)
KeyInit ==
  /\ root = NewFS.root
  /\ cwd = NewFS.cwd
  /\ dir = NewFS.dir
  /\ ino = NewFS.ino
  /\ node = NewFS.node
  /\ data = NewFS.data
  /\ sealed = NewFS.sealed
  /\ files = NewFS.files
  /\ ret = Idle
  /\ thread = << IdleThread >>

\* the key fastrand produces next
NextKey == thread[1].key + 1

\* the call op returns r: draws is the number of keys the call has drawn
KeyReturn(op, h, name, size, r, draws) ==
  /\ InBounds(r.st)
  /\ thread[1].key + draws <= MaxKeys
  /\ thread' = [thread EXCEPT ![1].op = op, ![1].h = h, ![1].name = name, ![1].size = size,
                              ![1].n = r.n, ![1].err = r.err, ![1].out = r.out,
                              ![1].key = @ + draws]
  /\ Commit(r.st)

KeyOpenFile(name, flag) ==
  /\ Len(files) < MaxHandles
  /\ \E o \in { OpenFile(St, name, flag) } : KeyReturn("OpenFile", o.n, name, 0, o, 0)

KeyWrite(h, p) == KeyReturn("Write", h, <<>>, 0, Write(St, h, p, NextKey), 1)

KeyWriteAt(h, b, off) == KeyReturn("WriteAt", h, <<>>, 0, WriteAt(St, h, b, off, NextKey), 1)

KeyTruncate(h, size) == KeyReturn("Truncate", h, <<>>, size, Truncate(St, h, size, NextKey), 1)

KeyFSTruncate(name, size) ==
  KeyReturn("FSTruncate", 0, name, size, FSTruncate(St, name, size, NextKey), 1)

KeyNext ==
  \/ \E name \in { PathF, PathG }, flag \in { O_RDWR + O_CREATE, O_RDWR + O_TRUNC } :
       KeyOpenFile(name, flag)
  \/ \E h \in Handles, p \in OneByte : KeyWrite(h, p)
  \/ \E h \in Handles, b \in OneByte, off \in 0..1 : KeyWriteAt(h, b, off)
  \/ \E h \in Handles, size \in 0..MaxSize : KeyTruncate(h, size)
  \/ \E name \in { PathF, PathG }, size \in 0..MaxSize : KeyFSTruncate(name, size)

KeySpec == KeyInit /\ [][KeyNext]_vars

\* the slot the caller's last call worked on, 0 when it has none
KeySlot ==
  LET c == thread[1] IN
  IF c.op \in { "Write", "WriteAt", "Truncate" } THEN files[c.h].data
  ELSE IF c.op = "FSTruncate" /\ Resolve(node, root, c.name) # 0
  THEN data[Resolve(node, root, c.name) + 1]
  ELSE 0

(***************************************************************************)
(* C37: rekey on every mutation.  Every successful Write, WriteAt and      *)
(* Truncate that stores ciphertext stores it under a newly generated key:  *)
(* the key in the slot after the call is not the key that was there before *)
(* it and is the key generated last, which no earlier encryption used, and *)
(* no key is in two slots.                                                 *)
(***************************************************************************)
C37_Rekey ==
  [][/\ \A d \in DOMAIN sealed' :
          (/\ thread'[1].err = "nil"
           /\ d = KeySlot'
           /\ d \in DOMAIN sealed
           /\ sealed'[d].ciphertext # NilCipher
           /\ thread'[1].key # thread[1].key
           /\ ~(thread'[1].op \in { "Truncate", "FSTruncate" } /\ thread'[1].size = 0
                /\ sealed'[d] = sealed[d]))
            => /\ sealed'[d].key # sealed[d].key
               /\ sealed'[d].key = thread'[1].key
               /\ sealed'[d].ciphertext.hdr = thread'[1].key
               /\ thread'[1].key > thread[1].key
     /\ \A d \in DOMAIN sealed', e \in DOMAIN sealed' :
          (d # e /\ sealed'[d].key # 0) => sealed'[d].key # sealed'[e].key]_vars

\* two files hold data under different keys and the second has been rekeyed
C37_Witness ==
  /\ thread # <<>>
  /\ thread[1].op \in { "Write", "WriteAt", "Truncate", "FSTruncate" }
  /\ thread[1].err = "nil"
  /\ thread[1].key >= 3
  /\ \E d \in DOMAIN sealed, e \in DOMAIN sealed :
       d # e /\ sealed[d].key # 0 /\ sealed[e].key # 0 /\ KeySlot = d

(***************************************************************************)
(* Plaintext buffers.  For each call, the buffers it allocates for         *)
(* plaintext: filled is the number of plaintext bytes put into the buffer, *)
(* left the number of them core.Wipe (or core.Move, which wipes its        *)
(* source) has not cleared when the call returns, and inLock says that the *)
(* buffer was cleared before the lock under which it was filled was        *)
(* released.  A call that ends before core.Decrypt, or in which            *)
(* core.Decrypt fails, has put no plaintext anywhere.                      *)
(***************************************************************************)
Buf(filled, left, inLock) == [filled |-> filled, left |-> left, inLock |-> inLock]

\* file.read: plaintext is filled under the second RLock and wiped after RUnlock
readBuffers(st, h, L, offset) ==
  LET r == read(st, h, L, offset) IN
  IF r.err \in { "nil", "EOF" } /\ r.n > 0
  THEN << Buf(st.node[st.files[h].node].Size, 0, FALSE) >>
  ELSE <<>>

\* file.write: plaintext is filled under RLock and kept after RUnlock; when the
\* file grows, data is a new buffer, the only one core.Wipe is called on
writeBuffers(st, h, p, offset, newKey) ==
  LET r == write(st, h, p, offset, newKey) IN
  IF r.err # "nil" THEN <<>>
  ELSE LET Size == st.node[st.files[h].node].Size
           size == Len(p) + offset IN
       IF size > Size
       THEN << Buf(Size, Size, FALSE), Buf(size, 0, TRUE) >>
       ELSE << Buf(Size, 0, FALSE) >>

\* file.Truncate, all of it under Lock: when the file shrinks, core.Wipe is called
\* on plaintext[:size]; when it grows, core.Move wipes plaintext and core.Wipe data
TruncateBuffers(st, h, size, newKey) ==
  LET r == Truncate(st, h, size, newKey) IN
  IF r.err # "nil" THEN <<>>
  ELSE LET Size == st.node[st.files[h].node].Size IN
       IF Size = 0 /\ size = 0 THEN <<>>
       ELSE IF size <= Size THEN << Buf(Size, Size - size, size = Size) >>
       ELSE << Buf(Size, 0, TRUE), Buf(size, 0, TRUE) >>

\* every buffer of bs that held plaintext was wiped, and under its lock
Wiped(bs) == \A i \in 1..Len(bs) : bs[i].filled > 0 => bs[i].left = 0 /\ bs[i].inLock

(***************************************************************************)
(* C38: plaintext discipline.  When Read, ReadAt, Write, WriteAt or        *)
(* Truncate returns, every plaintext buffer the call allocated, the        *)
(* decrypted old content as well as the newly assembled content, has been  *)
(* wiped, and was wiped before the lock under which it was filled was      *)
(* released.                                                               *)
(***************************************************************************)
C38_PlaintextWiped ==
  ret = Idle =>
    \A h \in Handles :
      /\ \A L \in BufLens : Wiped(readBuffers(St, h, L, files[h].offset))
      /\ \A p \in Buffers, k \in Keys : Wiped(writeBuffers(St, h, p, files[h].offset, k))
      /\ \A size \in Sizes, k \in Keys : Wiped(TruncateBuffers(St, h, size, k))

(***************************************************************************)
(* Locks.  Goroutines that write through the two handles of /f, each       *)
(* acquisition and release of a handle's f.mtx a step of its own.  In the  *)
(* record of goroutine t, rl and wl are the handles whose mutex t holds    *)
(* for reading and for writing inside its call, and leaked the handles     *)
(* whose read lock a call of t that has returned never released.  The      *)
(* slot is shared by the handles and f.mtx is not: the two stores of       *)
(* file.write under the Lock of one handle are two steps for a goroutine   *)
(* on the other handle.                                                    *)
(***************************************************************************)

\* the mutex of handle h is held by some goroutine, for reading or for writing
ReadHeld(h) == \E u \in Threads : h \in thread[u].rl \cup thread[u].leaked
WriteHeld(h) == \E u \in Threads : h \in thread[u].wl

\* a goroutine waits in f.mtx.Lock of handle h: RLock lets no new reader in
LockWaited(h) == \E u \in Threads : thread[u].pc = "w_lock" /\ thread[u].h = h

\* file.Write and file.WriteAt up to make([]byte, f.node.Size): size is that size
GoLockedWrite(t, h, p, off) ==
  /\ Running
  /\ thread[t].pc = "idle"
  /\ Len(thread[t].log) < LockOps
  /\ files[h].node # 0
  /\ thread' = [thread EXCEPT ![t] =
                  Started(t, "WriteAt", h, p, 0, off, TRUE, node[files[h].node].Size,
                          "w_rlock")]
  /\ Commit(St)

\* file.write: f.mtx.RLock, taken when f.node.Size is not 0
StepRLock(t) ==
  /\ At(t, "w_rlock")
  /\ LET r == thread[t] IN
     IF node[files[r.h].node].Size = 0
     THEN thread' = [thread EXCEPT ![t].pc = "w_lock"]
     ELSE /\ ~WriteHeld(r.h)
          /\ ~LockWaited(r.h)
          /\ thread' = [thread EXCEPT ![t].pc = "w_decrypt", ![t].rl = @ \cup { r.h }]
  /\ Commit(St)

\* file.write: key.Open and core.Decrypt, whose error returns leave out
\* f.mtx.RUnlock, and the RUnlock after them
StepDecrypt(t) ==
  /\ At(t, "w_decrypt")
  /\ LET r == thread[t]
         f == files[r.h] IN
     thread' = [thread EXCEPT ![t] =
                  IF sealed[f.data].key = 0 THEN Done(r, 0, "panic", <<>>)
                  ELSE The({ IF dec.err # "nil"
                             THEN [Done(r, 0, dec.err, <<>>) EXCEPT
                                     !.rl = @ \ { r.h }, !.leaked = @ \cup { r.h }]
                             ELSE [r EXCEPT !.plaintext = dec.plaintext, !.pc = "w_lock",
                                            !.rl = @ \ { r.h }]
                             : dec \in { Decrypt(sealed[f.data].ciphertext,
                                                 sealed[f.data].key, r.size) } })]
  /\ Commit(St)

\* file.write: f.mtx.Lock, which waits until no goroutine holds the mutex
StepLock(t) ==
  /\ At(t, "w_lock")
  /\ ~ReadHeld(thread[t].h)
  /\ ~WriteHeld(thread[t].h)
  /\ thread' = [thread EXCEPT ![t].pc = "w_ciphertext", ![t].wl = @ \cup { thread[t].h }]
  /\ Commit(St)

\* file.write: f.data.ciphertext, err = core.Encrypt(data, newKey.Bytes())
StepStoreCiphertext(t) ==
  /\ At(t, "w_ciphertext")
  /\ LET r == thread[t]
         f == files[r.h]
         size == Len(r.p) + r.off IN
     \E data0 \in { IF size > node[f.node].Size
                    THEN Copy(Zeros(size), r.plaintext) ELSE r.plaintext } :
       IF r.off > Len(data0)
       THEN thread' = [thread EXCEPT ![t] = Done(r, 0, "panic", <<>>)] /\ Commit(St)
       ELSE /\ thread' = [thread EXCEPT ![t].pc = "w_key",
                                        ![t].n = Min(Len(r.p), Len(data0) - r.off)]
            /\ Commit([St EXCEPT !.sealed[f.data].ciphertext =
                                    Encrypt(CopyAt(data0, r.off, r.p), FreshKey(t))])

\* file.write: f.data.key = newKey.Seal(), f.updateSize() and f.mtx.Unlock
StepStoreKey(t) ==
  /\ At(t, "w_key")
  /\ LET r == thread[t]
         f == files[r.h] IN
     /\ thread' = [thread EXCEPT ![t] = [Done(r, r.n, "nil", <<>>) EXCEPT !.wl = @ \ { r.h }]]
     /\ Commit([St EXCEPT !.sealed[f.data].key = FreshKey(t),
                          !.node[f.node].Size = updateSize(sealed[f.data].ciphertext)])

LockNext ==
  \/ \E t \in Threads, h \in Handles, off \in 0..1 : GoLockedWrite(t, h, ByteOf(t), off)
  \/ \E t \in Threads : StepRLock(t)
  \/ \E t \in Threads : StepDecrypt(t)
  \/ \E t \in Threads : StepLock(t)
  \/ \E t \in Threads : StepStoreCiphertext(t)
  \/ \E t \in Threads : StepStoreKey(t)

LockSpec == RaceInit /\ [][LockNext]_vars

\* the scheduler leaves no goroutine that can take a step waiting forever
FairLockSpec == LockSpec /\ WF_vars(LockNext)

(***************************************************************************)
(* C39: every operation releases every lock it acquired before it returns, *)
(* on error returns as well as on success, so under fair scheduling every  *)
(* operation started on the same handle or file later acquires its locks   *)
(* and completes.                                                          *)
(***************************************************************************)
C39_LocksReleased ==
  \A t \in 1..NumThreads :
    /\ [](thread[t].pc = "idle" => thread[t].rl \cup thread[t].wl \cup thread[t].leaked = {})
    /\ [](thread[t].pc # "idle" => <>(thread[t].pc = "idle"))

(***************************************************************************)
(* The io/fs view of a filesystem.  pbFS.FS copies the fields of the       *)
(* filesystem into a new pbFS: the pointers root, dir, ino and mtx (the    *)
(* inodes and the counter stay shared), the string "/" for cwd, and the    *)
(* slice header of data, whose length is the one data has at that moment.  *)
(* The slots up to that length are the pointers the filesystem has: Sync   *)
(* stores in them the pointer they hold.                                   *)
(***************************************************************************)
NoView == [taken |-> FALSE, cwd |-> <<"/">>, dir |-> 0, data |-> <<>>]

\* pbFS.FS: the stdFS the call returns
FS(st) == [taken |-> TRUE, cwd |-> <<"/">>, dir |-> st.dir, data |-> st.data]

\* the pbFS inside the view v, over the inodes, slots and handles of st
ViewFS(st, v) == [st EXCEPT !.cwd = v.cwd, !.dir = v.dir, !.data = v.data]

\* checkPath
checkPath(name) == IF IsAbs(name) THEN "ErrInvalid" ELSE "nil"

\* stdFS.Open
stdFSOpen(st, v, name) ==
  IF checkPath(name) # "nil" THEN Ret(st, 0, checkPath(name), <<>>)
  ELSE Open(ViewFS(st, v), name)

ViewInit ==
  /\ root = NewFS.root
  /\ cwd = NewFS.cwd
  /\ dir = NewFS.dir
  /\ ino = NewFS.ino
  /\ node = NewFS.node
  /\ data = NewFS.data
  /\ sealed = NewFS.sealed
  /\ files = NewFS.files
  /\ ret = Idle
  /\ thread = << NoView >>

\* the program calls FS() and keeps the view
CallFS ==
  /\ ret = Idle
  /\ ~thread[1].taken
  /\ thread' = << FS(St) >>
  /\ Commit(St)

ViewNext ==
  \/ CallFS
  \/ \E name \in TreePaths : CallOpenFile(name, O_RDWR + O_CREATE)
  \/ \E name \in { PathG } : CallMkdir(name)
  \/ \E h \in Handles, p \in OneByte : CallWrite(h, p, 1)
  \/ \E h \in Handles : CallClose(h)
  \/ \E name \in TreePaths : CallRemove(name)
  \/ \E name \in { PathG, <<"/">> } : CallChdir(name)
  \/ Resume

ViewSpec == ViewInit /\ [][ViewNext]_vars

\* the paths opened through the view
ViewPaths == { <<"f">>, <<"g">>, <<"g", "/", "x">> }

(***************************************************************************)
(* C40: the view FS() returned is equivalent to the filesystem in every    *)
(* later state: for every path p without a leading slash, opening p        *)
(* through the view succeeds exactly when opening "/" + p on the           *)
(* filesystem succeeds, and the two handles are on the same inode and the  *)
(* same content.                                                           *)
(***************************************************************************)
C40_ViewEquivalent ==
  (ret = Idle /\ thread[1].taken) =>
    \A p \in ViewPaths :
      \E a \in { stdFSOpen(St, thread[1], p) }, b \in { Open(St, <<"/">> \o p) } :
        /\ (a.err = "nil") <=> (b.err = "nil")
        /\ (a.err = "nil" /\ b.err = "nil") =>
             /\ a.st.files[a.n].node = b.st.files[b.n].node
             /\ a.st.files[a.n].data = b.st.files[b.n].data

====
